---------------------------- MODULE Spec2Model ----------------------------
(***************************************************************************)
(* Glow-Dot-Art: the SVG-to-dots pipeline (services/svgProcessor.ts) and   *)
(* the coordinate text editor (components/DotPreview, App).                *)
(*                                                                         *)
(* Numbers.  A coordinate is an integer count of hundredths (1.00 = Unit), *)
(* the grid on which the serializer's toFixed(2) is exact.  Squared        *)
(* distances are exact rationals; floating-point rounding error is outside *)
(* the model.                                                              *)
(***************************************************************************)
EXTENDS Integers, Sequences, FiniteSets, TLC

VARIABLES
    pc,            \* position of the run that is being modelled
    points,        \* ramerDouglasPeucker: the input point sequence
    epsilon,       \* option epsilon (hundredths)
    minDistance,   \* option minDistance (hundredths)
    simplified,    \* processSVG: const simplified
    finalPoints,   \* processSVG: let finalPoints
    pathData,      \* parsePathData: the commands of d consumed so far
    interp,        \* parsePathData: paths, currentPath, x, y, startX, startY
    svg,           \* processSVG: the parsed document (doc, svgEl)
    shouldResize,  \* option shouldResize
    allShapesCoords, \* processSVG: const allShapesCoords
    outcome,       \* processSVG: how the promise settled
    document,      \* a Document handed to shapesToString
    coordinates,   \* DotPreview: the coordinates prop
    shapes,        \* DotPreview: the shapes memo
    reserialized,  \* shapesToString(shapes)
    history,       \* App: the history of coordinate texts
    historyIndex,  \* App: the position in history (1-based)
    draggedPointInfo, \* DotPreview: the point being dragged, or NoDrag
    backgroundImage   \* App: whether a raster image is loaded

simplifyVars == <<points, epsilon, minDistance, simplified, finalPoints>>
pathVars == <<pathData, interp>>
svgVars == <<svg, shouldResize, allShapesCoords, outcome>>
textVars == <<document, coordinates, shapes, reserialized>>
editorVars == <<history, historyIndex, draggedPointInfo, backgroundImage>>
vars == <<pc, simplifyVars, pathVars, svgVars, textVars, editorVars>>

(***************************************************************************)
(* Bounds of the model.                                                    *)
(***************************************************************************)
MaxPts == 4          \* longest point sequence given to the simplifier
MaxX == 2            \* the simplifier's inputs lie on the grid 0..MaxX by YCoords
MaxEps == 1          \* epsilon ranges over 1..MaxEps
MaxMinDist == 2      \* minDistance ranges over 0..MaxMinDist
YCoords == {0, 1}
MaxCmds == 3         \* longest path description, in commands
MaxCurveGroups == 2  \* most 6-argument groups in one curveto command
MaxElems == 2        \* most elements in one svg document
MaxShapes == 2       \* most shapes in a Document handed to shapesToString
MaxShapePts == 2     \* most points in one such shape
MaxFrags == 3        \* most fragments in a hand-edited text

(***************************************************************************)
(* Program constants.                                                      *)
(***************************************************************************)
Unit == 100          \* toFixed(2): hundredths per coordinate unit
Steps == 10          \* const steps = 10
TargetWidth == 720   \* const targetWidth = 720
TargetHeight == 1080 \* const targetHeight = 1080

(***************************************************************************)
(* Exact arithmetic helpers.                                               *)
(***************************************************************************)
Abs(n) == IF n < 0 THEN -n ELSE n

\* a/b > c/d for positive a, b, c, d, by continued fractions (no product is
\* formed, so the operands may be as large as the integers allow).
RECURSIVE FracGreater(_, _, _, _)
FracGreater(a, b, c, d) ==
    LET q1 == a \div b
        q2 == c \div d
        r1 == a % b
        r2 == c % d
    IN  IF q1 # q2 THEN q1 > q2
        ELSE IF r1 = 0 THEN FALSE
        ELSE IF r2 = 0 THEN TRUE
        ELSE FracGreater(d, r2, b, r1)

\* a*b > c*d for naturals a, b, c, d.
ProductGreater(a, b, c, d) ==
    IF a = 0 \/ b = 0 THEN FALSE
    ELSE IF c = 0 \/ d = 0 THEN TRUE
    ELSE FracGreater(a, c, d, b)

\* A distance is kept as its square, the rational (a*b)/c with c > 0.
Dist(a, b, c) == [a |-> a, b |-> b, c |-> c]
ZeroDist == Dist(0, 0, 1)

\* x > y for two distances.  Within one ramerDouglasPeucker call every
\* distance has the chord's squared length or 1 as its denominator.
DistGreater(x, y) ==
    IF x.c = y.c THEN ProductGreater(x.a, x.b, y.a, y.b)
    ELSE IF y.c = 1 THEN ProductGreater(x.a, x.b, y.a * y.b, x.c)
    ELSE IF x.c = 1 THEN ProductGreater(x.a * x.b, y.c, y.a, y.b)
    ELSE x.a * x.b * y.c > y.a * y.b * x.c

SqDistance(p, q) == (p[1] - q[1]) * (p[1] - q[1]) + (p[2] - q[2]) * (p[2] - q[2])

(***************************************************************************)
(* Ramer-Douglas-Peucker.  Sequences are 1-based: JS index i is i + 1.     *)
(***************************************************************************)
\* Mutation of getPerpendicularDistance: the nearest point is always lineStart.
DistanceToLineStart(pt, lineStart, lineEnd) ==
    Dist(SqDistance(pt, lineStart), 1, 1)

\* The distance from pt to the segment lineStart-lineEnd.  With
\* t = tn/len2 in [0,1] and nearest = lineStart + t*(dx,dy), the offset
\* pt - nearest is (dy*cross, -dx*cross)/len2, whose squared length is
\* cross*cross/len2.
GetPerpendicularDistance(pt, lineStart, lineEnd) ==
    LET dx == lineEnd[1] - lineStart[1]
        dy == lineEnd[2] - lineStart[2]
        len2 == dx * dx + dy * dy
        tn == (pt[1] - lineStart[1]) * dx + (pt[2] - lineStart[2]) * dy
        cross == (pt[1] - lineStart[1]) * dy - (pt[2] - lineStart[2]) * dx
    IN  IF dx = 0 /\ dy = 0 THEN Dist(SqDistance(pt, lineStart), 1, 1)
        ELSE IF tn < 0 THEN Dist(SqDistance(pt, lineStart), 1, 1)
        ELSE IF tn > len2 THEN Dist(SqDistance(pt, lineEnd), 1, 1)
        ELSE Dist(Abs(cross), Abs(cross), len2)

\* The loop of ramerDouglasPeucker from i on: the first interior point of
\* greatest distance, and that distance.
RECURSIVE Farthest(_, _, _, _)
Farthest(pts, i, index, dmax) ==
    IF i >= Len(pts) THEN [index |-> index, dmax |-> dmax]
    ELSE LET d == GetPerpendicularDistance(pts[i], pts[1], pts[Len(pts)])
         IN  IF DistGreater(d, dmax) THEN Farthest(pts, i + 1, i, d)
             ELSE Farthest(pts, i + 1, index, dmax)

\* Mutation of ramerDouglasPeucker: the junction point is kept twice.
RECURSIVE RdpKeepJunction(_, _)
RdpKeepJunction(pts, eps) ==
    IF Len(pts) < 3 THEN pts
    ELSE LET far == Farthest(pts, 2, 1, ZeroDist)
         IN  IF DistGreater(far.dmax, Dist(eps, eps, 1))
             THEN RdpKeepJunction(SubSeq(pts, 1, far.index), eps)
                      \o RdpKeepJunction(SubSeq(pts, far.index, Len(pts)), eps)
             ELSE <<pts[1], pts[Len(pts)]>>

RECURSIVE RamerDouglasPeucker(_, _)
RamerDouglasPeucker(pts, eps) ==
    IF Len(pts) < 3 THEN pts
    ELSE LET far == Farthest(pts, 2, 1, ZeroDist)
         IN  IF DistGreater(far.dmax, Dist(eps, eps, 1))
             THEN LET recResults1 == RamerDouglasPeucker(SubSeq(pts, 1, far.index), eps)
                      recResults2 == RamerDouglasPeucker(SubSeq(pts, far.index, Len(pts)), eps)
                  IN  SubSeq(recResults1, 1, Len(recResults1) - 1) \o recResults2
             ELSE <<pts[1], pts[Len(pts)]>>

(***************************************************************************)
(* The deduplication pass of processSVG.                                   *)
(***************************************************************************)
\* Mutation: each point is compared with its input predecessor.
RECURSIVE FilterAgainstPredecessor(_, _, _, _)
FilterAgainstPredecessor(simp, i, filteredPoints, minDist) ==
    IF i > Len(simp) THEN filteredPoints
    ELSE IF SqDistance(simp[i], simp[i - 1]) > minDist * minDist
         THEN FilterAgainstPredecessor(simp, i + 1, Append(filteredPoints, simp[i]), minDist)
         ELSE FilterAgainstPredecessor(simp, i + 1, filteredPoints, minDist)

\* The loop over simplified from i on.
RECURSIVE FilterLoop(_, _, _, _)
FilterLoop(simp, i, filteredPoints, minDist) ==
    IF i > Len(simp) THEN filteredPoints
    ELSE LET lastPoint == filteredPoints[Len(filteredPoints)]
             currentPoint == simp[i]
         IN  IF SqDistance(currentPoint, lastPoint) > minDist * minDist
             THEN FilterLoop(simp, i + 1, Append(filteredPoints, currentPoint), minDist)
             ELSE FilterLoop(simp, i + 1, filteredPoints, minDist)

\* Mutation: the pass runs (and drops coincident points) for minDistance = 0 too.
FilterAlways(simp, minDist) ==
    IF Len(simp) > 0 THEN FilterLoop(simp, 2, <<simp[1]>>, minDist) ELSE simp

FilterClosePoints(simp, minDist) ==
    IF minDist > 0 /\ Len(simp) > 0
    THEN FilterLoop(simp, 2, <<simp[1]>>, minDist)
    ELSE simp

(***************************************************************************)
(* parsePathData.  d is the result of d.match(/[a-df-z][^a-df-z]*/ig): a   *)
(* sequence of commands, each a letter and its parsed numeric arguments    *)
(* (hundredths).  Every command of the model carries complete argument     *)
(* groups, and curve arguments are multiples of 10.00, so that the         *)
(* Bernstein sums below are exact on the grid.                             *)
(***************************************************************************)
Command(letter, args) == [letter |-> letter, args |-> args]

LowerCase == {"m", "l", "h", "v", "c", "z", "a", "q", "s", "t"}
\* command === command.toLowerCase()
IsRelative(letter) == letter \in LowerCase
\* command.toUpperCase()
ToUpperCase(letter) ==
    CASE letter = "m" -> "M" [] letter = "l" -> "L" [] letter = "h" -> "H"
      [] letter = "v" -> "V" [] letter = "c" -> "C" [] letter = "z" -> "Z"
      [] letter = "a" -> "A" [] letter = "q" -> "Q" [] letter = "s" -> "S"
      [] letter = "t" -> "T" [] OTHER -> letter

InterpInit ==
    [paths |-> <<>>, currentPath |-> <<>>, x |-> 0, y |-> 0, startX |-> 0, startY |-> 0]

\* Mutation of case 'M': every pair starts a new subpath.
RECURSIVE MoveToLoopRestart(_, _, _, _)
MoveToLoopRestart(st, args, i, isRelative) ==
    IF i > Len(args) THEN st
    ELSE LET px == IF isRelative THEN st.x + args[i] ELSE args[i]
             py == IF isRelative THEN st.y + args[i + 1] ELSE args[i + 1]
         IN  MoveToLoopRestart([st EXCEPT !.paths = IF Len(st.currentPath) > 0
                                                   THEN Append(st.paths, st.currentPath)
                                                   ELSE st.paths,
                                         !.currentPath = <<<<px, py>>>>,
                                         !.startX = px, !.startY = py,
                                         !.x = px, !.y = py],
                               args, i + 2, isRelative)

\* case 'M', from argument index i on.
RECURSIVE MoveToLoop(_, _, _, _)
MoveToLoop(st, args, i, isRelative) ==
    IF i > Len(args) THEN st
    ELSE LET px == IF isRelative THEN st.x + args[i] ELSE args[i]
             py == IF isRelative THEN st.y + args[i + 1] ELSE args[i + 1]
             moved == IF i = 1
                      THEN [st EXCEPT !.paths = IF Len(st.currentPath) > 0
                                                THEN Append(st.paths, st.currentPath)
                                                ELSE st.paths,
                                      !.currentPath = <<<<px, py>>>>,
                                      !.startX = px,
                                      !.startY = py]
                      ELSE [st EXCEPT !.currentPath = Append(st.currentPath, <<px, py>>)]
         IN  MoveToLoop([moved EXCEPT !.x = px, !.y = py], args, i + 2, isRelative)

\* case 'L', from argument index i on.
RECURSIVE LineToLoop(_, _, _, _)
LineToLoop(st, args, i, isRelative) ==
    IF i > Len(args) THEN st
    ELSE LET px == IF isRelative THEN st.x + args[i] ELSE args[i]
             py == IF isRelative THEN st.y + args[i + 1] ELSE args[i + 1]
         IN  LineToLoop([st EXCEPT !.currentPath = Append(st.currentPath, <<px, py>>),
                                   !.x = px, !.y = py],
                        args, i + 2, isRelative)

\* case 'H', from argument index i on.
RECURSIVE HorizontalLoop(_, _, _, _)
HorizontalLoop(st, args, i, isRelative) ==
    IF i > Len(args) THEN st
    ELSE LET px == IF isRelative THEN st.x + args[i] ELSE args[i]
         IN  HorizontalLoop([st EXCEPT !.currentPath = Append(st.currentPath, <<px, st.y>>),
                                       !.x = px],
                            args, i + 1, isRelative)

\* case 'V', from argument index i on.
RECURSIVE VerticalLoop(_, _, _, _)
VerticalLoop(st, args, i, isRelative) ==
    IF i > Len(args) THEN st
    ELSE LET py == IF isRelative THEN st.y + args[i] ELSE args[i]
         IN  VerticalLoop([st EXCEPT !.currentPath = Append(st.currentPath, <<st.x, py>>),
                                     !.y = py],
                          args, i + 1, isRelative)

\* b1*p0 + b2*p1 + b3*p2 + b4*p3 at t = tStep/steps, the weights being the
\* cubic Bernstein basis (it = 1 - t), over the common denominator steps^3.
Bernstein(tStep, p0, p1, p2, p3) ==
    LET t == tStep
        it == Steps - tStep
    IN  (it * it * it * p0 + 3 * it * it * t * p1 + 3 * it * t * t * p2 + t * t * t * p3)
            \div (Steps * Steps * Steps)

\* Mutation of the sampling: t runs over 0/steps .. (steps-1)/steps.
CurveSamplesFromStart(x, y, x1, y1, x2, y2, endX, endY) ==
    [tStep \in 1..Steps |->
        <<Bernstein(tStep - 1, x, x1, x2, endX), Bernstein(tStep - 1, y, y1, y2, endY)>>]

\* for (t_step = 1; t_step <= steps; t_step++) currentPath.push([px, py])
CurveSamples(x, y, x1, y1, x2, y2, endX, endY) ==
    [tStep \in 1..Steps |->
        <<Bernstein(tStep, x, x1, x2, endX), Bernstein(tStep, y, y1, y2, endY)>>]

\* case 'C', from argument index i on.
RECURSIVE CurveToLoop(_, _, _, _)
CurveToLoop(st, args, i, isRelative) ==
    IF i > Len(args) THEN st
    ELSE LET x1 == IF isRelative THEN st.x + args[i] ELSE args[i]
             y1 == IF isRelative THEN st.y + args[i + 1] ELSE args[i + 1]
             x2 == IF isRelative THEN st.x + args[i + 2] ELSE args[i + 2]
             y2 == IF isRelative THEN st.y + args[i + 3] ELSE args[i + 3]
             endX == IF isRelative THEN st.x + args[i + 4] ELSE args[i + 4]
             endY == IF isRelative THEN st.y + args[i + 5] ELSE args[i + 5]
         IN  CurveToLoop([st EXCEPT !.currentPath =
                                        st.currentPath \o CurveSamples(st.x, st.y, x1, y1, x2, y2, endX, endY),
                                    !.x = endX, !.y = endY],
                         args, i + 6, isRelative)

\* Mutation of case 'Z': the start point is not appended.
ClosePathNoStart(st) ==
    IF Len(st.currentPath) > 0
    THEN [st EXCEPT !.currentPath = <<>>,
                    !.paths = Append(st.paths, st.currentPath)]
    ELSE st

\* case 'Z'
ClosePathCase(st) ==
    IF Len(st.currentPath) > 0
    THEN [st EXCEPT !.currentPath = <<>>,
                    !.paths = Append(st.paths, Append(st.currentPath, <<st.startX, st.startY>>))]
    ELSE st

\* Mutation of the switch: a command outside M, L, H, V, C, Z draws a line
\* to the position its last two arguments name.
ApplyCommandEndPoint(st, command) ==
    LET isRelative == IsRelative(command.letter)
        upper == ToUpperCase(command.letter)
        n == Len(command.args)
    IN  CASE upper = "M" -> MoveToLoop(st, command.args, 1, isRelative)
          [] upper = "L" -> LineToLoop(st, command.args, 1, isRelative)
          [] upper = "H" -> HorizontalLoop(st, command.args, 1, isRelative)
          [] upper = "V" -> VerticalLoop(st, command.args, 1, isRelative)
          [] upper = "C" -> CurveToLoop(st, command.args, 1, isRelative)
          [] upper = "Z" -> ClosePathCase(st)
          [] OTHER -> LineToLoop(st, SubSeq(command.args, n - 1, n), 1, isRelative)

\* The body of commands.forEach: one command applied to the interpreter.
ApplyCommand(st, command) ==
    LET isRelative == IsRelative(command.letter)
        upper == ToUpperCase(command.letter)
    IN  CASE upper = "M" -> MoveToLoop(st, command.args, 1, isRelative)
          [] upper = "L" -> LineToLoop(st, command.args, 1, isRelative)
          [] upper = "H" -> HorizontalLoop(st, command.args, 1, isRelative)
          [] upper = "V" -> VerticalLoop(st, command.args, 1, isRelative)
          [] upper = "C" -> CurveToLoop(st, command.args, 1, isRelative)
          [] upper = "Z" -> ClosePathCase(st)
          [] OTHER -> st

\* Mutation of the end of parsePathData: the start point is appended.
FinishPathsClosed(st) ==
    IF Len(st.currentPath) > 0
    THEN Append(st.paths, Append(st.currentPath, <<st.startX, st.startY>>))
    ELSE st.paths

\* if (currentPath.length > 0) paths.push(currentPath); return paths
FinishPaths(st) ==
    IF Len(st.currentPath) > 0 THEN Append(st.paths, st.currentPath) ELSE st.paths

RECURSIVE RunCommands(_, _, _)
RunCommands(st, commands, i) ==
    IF i > Len(commands) THEN st
    ELSE RunCommands(ApplyCommand(st, commands[i]), commands, i + 1)

ParsePathData(commands) == FinishPaths(RunCommands(InterpInit, commands, 1))

(***************************************************************************)
(* Coordinate text.  A text is a sequence of characters (strings of length *)
(* one).  A Shape is [points, isClosed]; a Document a sequence of Shapes.  *)
(***************************************************************************)
Shape(pts, isClosed) == [points |-> pts, isClosed |-> isClosed]

RECURSIVE Join(_, _)
\* parts.join(sep), for a sequence of texts.
Join(parts, sep) ==
    IF Len(parts) = 0 THEN <<>>
    ELSE IF Len(parts) = 1 THEN parts[1]
    ELSE parts[1] \o sep \o Join(Tail(parts), sep)

DigitChars == <<"0", "1", "2", "3", "4", "5", "6", "7", "8", "9">>

RECURSIVE NatToChars(_)
NatToChars(n) ==
    IF n < 10 THEN <<DigitChars[n + 1]>>
    ELSE NatToChars(n \div 10) \o <<DigitChars[(n % 10) + 1]>>

\* `${parseFloat(v.toFixed(2))}` for v on the hundredths grid: no trailing
\* zeros, no decimal point for a whole number, "0" for -0.
NumberToChars(v) ==
    LET a == Abs(v)
        whole == a \div Unit
        frac == a % Unit
    IN  (IF v < 0 THEN <<"-">> ELSE <<>>)
        \o NatToChars(whole)
        \o (IF frac = 0 THEN <<>>
            ELSE IF frac % 10 = 0 THEN <<".", DigitChars[(frac \div 10) + 1]>>
            ELSE <<".", DigitChars[(frac \div 10) + 1], DigitChars[(frac % 10) + 1]>>)

\* `[${x},${y},-1]` or `[${x},${y}]`
PointToChars(p, withMarker) ==
    <<"[">> \o NumberToChars(p[1]) \o <<",">> \o NumberToChars(p[2])
        \o (IF withMarker THEN <<",", "-", "1">> ELSE <<>>) \o <<"]">>

\* Mutation: every point of a closed shape carries the marker.
PointsToCharsMarkAll(pts, isClosed) ==
    Join([i \in 1..Len(pts) |-> PointToChars(pts[i], isClosed)], <<",", "\n">>)

\* An index of a sparse array that holds no element.  map skips it and
\* join writes the empty string for it.
Hole == <<>>

\* points.map(...).join(',\n'): the marker goes on the last point of a closed shape.
PointsToChars(pts, isClosed) ==
    Join([i \in 1..Len(pts) |->
            IF pts[i] = Hole THEN <<>>
            ELSE PointToChars(pts[i], i = Len(pts) /\ isClosed)],
         <<",", "\n">>)

RECURSIVE NonEmptyTexts(_)
\* .filter(s => s)
NonEmptyTexts(parts) ==
    IF parts = <<>> THEN <<>>
    ELSE IF Head(parts) = <<>> THEN NonEmptyTexts(Tail(parts))
    ELSE <<Head(parts)>> \o NonEmptyTexts(Tail(parts))

\* shapesToString: each shape is wrapped in "[\n" ... "\n]".
ShapeToString(shape) ==
    IF Len(shape.points) = 0 THEN <<>>
    ELSE <<"[", "\n">> \o PointsToChars(shape.points, shape.isClosed) \o <<"\n", "]">>

ShapesToString(doc) ==
    Join(NonEmptyTexts([i \in 1..Len(doc) |-> ShapeToString(doc[i])]), <<"\n", "\n">>)

(***************************************************************************)
(* The deserializer (the shapes memo of DotPreview).                       *)
(***************************************************************************)
WhiteSpace == {" ", "\n", "\r", "\t"}
IsDigit(c) == c \in {"0", "1", "2", "3", "4", "5", "6", "7", "8", "9"}
DigitValue(c) == CHOOSE n \in 0..9 : DigitChars[n + 1] = c

\* coordinates.replace(/\r\n/g, '\n'): every carriage return that a line
\* feed follows is dropped (matches of \r\n cannot overlap).
ReplaceCrLf(text) ==
    LET kept == SelectSeq([i \in 1..Len(text) |-> i],
                          LAMBDA i : ~(text[i] = "\r" /\ i < Len(text) /\ text[i + 1] = "\n"))
    IN  [k \in 1..Len(kept) |-> text[kept[k]]]

RECURSIVE TrimStart(_)
TrimStart(text) ==
    IF Len(text) > 0 /\ text[1] \in WhiteSpace THEN TrimStart(Tail(text)) ELSE text

RECURSIVE TrimEnd(_)
TrimEnd(text) ==
    IF Len(text) > 0 /\ text[Len(text)] \in WhiteSpace
    THEN TrimEnd(SubSeq(text, 1, Len(text) - 1))
    ELSE text

\* text.trim()
Trim(text) == TrimEnd(TrimStart(text))

RECURSIVE SkipSpace(_, _)
\* \s* from position i: the first position that holds no white space.
SkipSpace(text, i) ==
    IF i <= Len(text) /\ text[i] \in WhiteSpace THEN SkipSpace(text, i + 1) ELSE i

RECURSIVE SkipDigits(_, _)
SkipDigits(text, i) ==
    IF i <= Len(text) /\ IsDigit(text[i]) THEN SkipDigits(text, i + 1) ELSE i

\* /\n\s*\n/ tried at position i: 0, or the position of the match's last
\* character (\s* is greedy: the last line feed of the white space run).
SeparatorEnd(text, i) ==
    IF i > Len(text) \/ text[i] # "\n" THEN 0
    ELSE LET stop == SkipSpace(text, i + 1)
             feeds == {j \in (i + 1)..(stop - 1) : text[j] = "\n"}
         IN  IF feeds = {} THEN 0 ELSE CHOOSE j \in feeds : \A k \in feeds : k <= j

\* The first position from i on that holds c, or Len(text) + 1: where a
\* regex that begins with c is tried next.
NextAt(text, i, c) ==
    LET found == {j \in i..Len(text) : text[j] = c}
    IN  IF found = {} THEN Len(text) + 1 ELSE CHOOSE j \in found : \A k \in found : j <= k

RECURSIVE SplitBlocks(_, _, _)
\* text.split(/\n\s*\n/): p is where the current block starts, q where the
\* separator is tried next.
SplitBlocks(text, p, q) ==
    IF q > Len(text) THEN <<SubSeq(text, p, Len(text))>>
    ELSE LET e == SeparatorEnd(text, q)
         IN  IF e = 0 THEN SplitBlocks(text, p, NextAt(text, q + 1, "\n"))
             ELSE <<SubSeq(text, p, q - 1)>> \o SplitBlocks(text, e + 1, e + 1)

RECURSIVE DigitsValue(_, _, _)
\* The natural number written by the digits text[from..to].
DigitsValue(text, from, to) ==
    IF from > to THEN 0
    ELSE 10 * DigitsValue(text, from, to - 1) + DigitValue(text[to])

\* (-?\d+(?:\.\d+)?) tried at position i: [ok, next, value], value being
\* parseFloat of the match in hundredths.  The texts of the model write at
\* most two decimals; further decimals would fall off the grid and are cut.
MatchNumber(text, i) ==
    LET neg == i <= Len(text) /\ text[i] = "-"
        first == IF neg THEN i + 1 ELSE i
        afterInt == SkipDigits(text, first)
        hasDot == afterInt <= Len(text) /\ text[afterInt] = "."
        afterFrac == IF hasDot THEN SkipDigits(text, afterInt + 1) ELSE afterInt
        hasFrac == hasDot /\ afterFrac > afterInt + 1
        next == IF hasFrac THEN afterFrac ELSE afterInt
        whole == DigitsValue(text, first, afterInt - 1)
        tenths == IF hasFrac THEN DigitValue(text[afterInt + 1]) ELSE 0
        hundredths == IF hasFrac /\ afterFrac > afterInt + 2
                      THEN DigitValue(text[afterInt + 2]) ELSE 0
        magnitude == whole * Unit + 10 * tenths + hundredths
    IN  IF afterInt = first THEN [ok |-> FALSE, next |-> i, value |-> 0]
        ELSE [ok |-> TRUE, next |-> next,
              value |-> IF neg THEN -magnitude ELSE magnitude]

Is(text, i, c) == i <= Len(text) /\ text[i] = c

NoMatch == [ok |-> FALSE, next |-> 0, x |-> 0, y |-> 0, isSeparator |-> FALSE]

\* coordRegex tried at position i of block: [ok, next, x, y, isSeparator],
\* next being the position after the match.
\* /\[\s*(-?\d+(?:\.\d+)?)\s*,\s*(-?\d+(?:\.\d+)?)\s*(?:,\s*(-1)\s*)?\]/
MatchCoord(block, i) ==
    IF ~Is(block, i, "[") THEN NoMatch
    ELSE LET n1 == MatchNumber(block, SkipSpace(block, i + 1))
             comma == SkipSpace(block, n1.next)
             n2 == MatchNumber(block, SkipSpace(block, comma + 1))
             rest == SkipSpace(block, n2.next)
             minus == SkipSpace(block, rest + 1)
             close == SkipSpace(block, minus + 2)
         IN  IF ~n1.ok \/ ~Is(block, comma, ",") \/ ~n2.ok THEN NoMatch
             ELSE IF /\ Is(block, rest, ",") /\ Is(block, minus, "-")
                     /\ Is(block, minus + 1, "1") /\ Is(block, close, "]")
                  THEN [ok |-> TRUE, next |-> close + 1, x |-> n1.value, y |-> n2.value,
                        isSeparator |-> TRUE]
             ELSE IF Is(block, rest, "]")
                  THEN [ok |-> TRUE, next |-> rest + 1, x |-> n1.value, y |-> n2.value,
                        isSeparator |-> FALSE]
             ELSE NoMatch

\* Mutation of the end of a block: the pending shape is emitted even when
\* it holds no point.
EmitPendingAlways(newShapes, currentShape) == Append(newShapes, currentShape)

\* if (currentShape.points.length > 0) newShapes.push(currentShape)
EmitPending(newShapes, currentShape) ==
    IF Len(currentShape.points) > 0 THEN Append(newShapes, currentShape) ELSE newShapes

RECURSIVE ScanBlockNoReset(_, _, _, _)
\* Mutation: after a closure marker the current shape is emitted but not
\* replaced by an empty one.
ScanBlockNoReset(block, i, newShapes, currentShape) ==
    IF i > Len(block) THEN EmitPending(newShapes, currentShape)
    ELSE LET match == MatchCoord(block, i)
         IN  IF ~match.ok THEN ScanBlockNoReset(block, NextAt(block, i + 1, "["),
                                               newShapes, currentShape)
             ELSE LET pushed == [currentShape EXCEPT
                                    !.points = Append(currentShape.points, <<match.x, match.y>>)]
                  IN  IF match.isSeparator
                      THEN ScanBlockNoReset(block, match.next,
                                            Append(newShapes, [pushed EXCEPT !.isClosed = TRUE]),
                                            [pushed EXCEPT !.isClosed = FALSE])
                      ELSE ScanBlockNoReset(block, match.next, newShapes, pushed)

RECURSIVE ScanBlock(_, _, _, _)
\* while ((match = coordRegex.exec(block)) !== null), the search resuming
\* at position i; then the pending shape is emitted.
ScanBlock(block, i, newShapes, currentShape) ==
    IF i > Len(block) THEN EmitPending(newShapes, currentShape)
    ELSE LET match == MatchCoord(block, i)
         IN  IF ~match.ok THEN ScanBlock(block, NextAt(block, i + 1, "["),
                                        newShapes, currentShape)
             ELSE LET pushed == [currentShape EXCEPT
                                    !.points = Append(currentShape.points, <<match.x, match.y>>)]
                  IN  IF match.isSeparator
                      THEN ScanBlock(block, match.next,
                                     Append(newShapes, [pushed EXCEPT !.isClosed = TRUE]),
                                     Shape(<<>>, FALSE))
                      ELSE ScanBlock(block, match.next, newShapes, pushed)

RECURSIVE ScanBlocks(_, _, _)
\* for (const block of shapeBlocks)
ScanBlocks(shapeBlocks, k, newShapes) ==
    IF k > Len(shapeBlocks) THEN newShapes
    ELSE IF Trim(shapeBlocks[k]) = <<>> THEN ScanBlocks(shapeBlocks, k + 1, newShapes)
    ELSE ScanBlocks(shapeBlocks, k + 1,
                    ScanBlock(shapeBlocks[k], 1, newShapes, Shape(<<>>, FALSE)))

\* Mutation of the memo: a blank text yields one shape without points.
DeserializeBlankShape(text) ==
    IF Trim(text) = <<>> THEN <<Shape(<<>>, FALSE)>>
    ELSE ScanBlocks(SplitBlocks(Trim(ReplaceCrLf(text)), 1, 1), 1, <<>>)

\* The shapes memo: the Document a coordinate text stands for.
Deserialize(text) ==
    IF Trim(text) = <<>> THEN <<>>
    ELSE LET normalizedCoordinates == ReplaceCrLf(text)
             shapeBlocks == SplitBlocks(Trim(normalizedCoordinates), 1, 1)
         IN  ScanBlocks(shapeBlocks, 1, <<>>)

(***************************************************************************)
(* shapeToPath and processSVG.  An element is a record with its tag and    *)
(* its parsed attributes (hundredths; a missing attribute reads 0).  The   *)
(* numbers shapeToPath writes into d read back unchanged in parsePathData, *)
(* so d is built as commands directly.                                     *)
(***************************************************************************)
Rect(x, y, w, h) ==
    [tag |-> "rect", x |-> x, y |-> y, width |-> w, height |-> h, fullSize |-> FALSE]
\* <rect width="100%" height="100%">: parseFloat("100%") is 100.
FullSizeRect ==
    [tag |-> "rect", x |-> 0, y |-> 0, width |-> 100 * Unit, height |-> 100 * Unit,
     fullSize |-> TRUE]
Circle(cx, cy, r) == [tag |-> "circle", cx |-> cx, cy |-> cy, r |-> r]
Ellipse(cx, cy, rx, ry) == [tag |-> "ellipse", cx |-> cx, cy |-> cy, rx |-> rx, ry |-> ry]
Line(x1, y1, x2, y2) == [tag |-> "line", x1 |-> x1, y1 |-> y1, x2 |-> x2, y2 |-> y2]
Polyline(pts) == [tag |-> "polyline", points |-> pts]
Polygon(pts) == [tag |-> "polygon", points |-> pts]
Path(commands) == [tag |-> "path", d |-> commands]
Other(tag) == [tag |-> tag]

RecognizedTags == {"path", "rect", "circle", "ellipse", "line", "polyline", "polygon"}

\* Mutation of the rect case: H and V are given the extents, not the far edges.
RectPathExtents(el) ==
    <<Command("M", <<el.x, el.y>>), Command("H", <<el.width>>),
      Command("V", <<el.height>>), Command("H", <<el.x>>), Command("Z", <<>>)>>

\* `M ${x} ${y} H ${x+w} V ${y+h} H ${x} Z`
RectPath(el) ==
    <<Command("M", <<el.x, el.y>>), Command("H", <<el.x + el.width>>),
      Command("V", <<el.y + el.height>>), Command("H", <<el.x>>), Command("Z", <<>>)>>

\* Mutation of the circle and ellipse cases: each arc is written as a line
\* to its end point.
ArcPathAsLines(cx, cy, rx, ry) ==
    <<Command("M", <<cx - rx, cy>>),
      Command("L", <<cx + rx, cy>>),
      Command("L", <<cx - rx, cy>>),
      Command("Z", <<>>)>>

\* `M ${cx-rx} ${cy} A ${rx} ${ry} 0 1 0 ${cx+rx} ${cy} A ${rx} ${ry} 0 1 0 ${cx-rx} ${cy} Z`
ArcPath(cx, cy, rx, ry) ==
    <<Command("M", <<cx - rx, cy>>),
      Command("A", <<rx, ry, 0, Unit, 0, cx + rx, cy>>),
      Command("A", <<rx, ry, 0, Unit, 0, cx - rx, cy>>),
      Command("Z", <<>>)>>

\* `M ${points.replace(/\s+/g, ' L ')}` for points written as x,y pairs
\* separated by white space: the first pair after M, each further pair after
\* its own L.
PointsPath(pts) ==
    <<Command("M", IF Len(pts) > 0 THEN pts[1] ELSE <<>>)>>
        \o [i \in 1..(Len(pts) - 1) |-> Command("L", pts[i + 1])]

\* Mutation: only a closepath that ends the description counts.
EndsWithCloseCommand(commands) ==
    Len(commands) > 0 /\ commands[Len(commands)].letter \in {"Z", "z"}

\* d.toLowerCase().includes('z')
HasCloseCommand(commands) ==
    \E i \in 1..Len(commands) : commands[i].letter \in {"Z", "z"}

ShapeToPath(el) ==
    CASE el.tag = "path" -> [d |-> el.d, isClosed |-> HasCloseCommand(el.d)]
      [] el.tag = "rect" -> [d |-> RectPath(el), isClosed |-> TRUE]
      [] el.tag = "circle" -> [d |-> ArcPath(el.cx, el.cy, el.r, el.r), isClosed |-> TRUE]
      [] el.tag = "ellipse" -> [d |-> ArcPath(el.cx, el.cy, el.rx, el.ry), isClosed |-> TRUE]
      [] el.tag = "line" ->
            [d |-> <<Command("M", <<el.x1, el.y1>>), Command("L", <<el.x2, el.y2>>)>>,
             isClosed |-> FALSE]
      [] el.tag = "polyline" -> [d |-> PointsPath(el.points), isClosed |-> FALSE]
      [] el.tag = "polygon" ->
            [d |-> PointsPath(el.points) \o <<Command("Z", <<>>)>>, isClosed |-> TRUE]
      [] OTHER -> [d |-> <<>>, isClosed |-> FALSE]

\* The coordinate space: svg.viewBox holds the parsed parts of the viewBox
\* attribute (empty when absent), svg.width and svg.height the parsed
\* attributes (0 when absent).
Canvas(doc) ==
    LET four == Len(doc.viewBox) = 4
        w == IF four THEN doc.viewBox[3] ELSE 0
        h == IF four THEN doc.viewBox[4] ELSE 0
        fallBack == w = 0 \/ h = 0
    IN  [originX |-> IF four THEN doc.viewBox[1] ELSE 0,
         originY |-> IF four THEN doc.viewBox[2] ELSE 0,
         svgWidth |-> IF fallBack THEN doc.width ELSE w,
         svgHeight |-> IF fallBack THEN doc.height ELSE h]

\* a / b rounded to the nearest integer (b > 0): the grid value of a scaled
\* coordinate.  Exact for every canvas of the model.
RoundDiv(a, b) == (2 * a + b) \div (2 * b)

RECURSIVE GCD(_, _)
GCD(a, b) == IF b = 0 THEN a ELSE GCD(b, a % b)

\* The resizing logic: scale = min(targetWidth / svgWidth, targetHeight /
\* svgHeight) as the fraction num/den in lowest terms, and the centring
\* translation.
Resizing(canvas, resize) ==
    IF resize /\ canvas.svgWidth > 0 /\ canvas.svgHeight > 0
    THEN LET byWidth == TargetWidth * canvas.svgHeight <= TargetHeight * canvas.svgWidth
             target == IF byWidth THEN TargetWidth * Unit ELSE TargetHeight * Unit
             extent == IF byWidth THEN canvas.svgWidth ELSE canvas.svgHeight
             num == target \div GCD(target, extent)
             den == extent \div GCD(target, extent)
             newWidth == RoundDiv(canvas.svgWidth * num, den)
             newHeight == RoundDiv(canvas.svgHeight * num, den)
         IN  [num |-> num, den |-> den,
              translateX |-> (TargetWidth * Unit - newWidth) \div 2,
              translateY |-> (TargetHeight * Unit - newHeight) \div 2]
    ELSE [num |-> 1, den |-> 1, translateX |-> 0, translateY |-> 0]

\* transformedPoints
TransformPoints(pathPoints, canvas, resize) ==
    IF resize
    THEN LET r == Resizing(canvas, resize)
         IN  [i \in 1..Len(pathPoints) |->
                <<RoundDiv((pathPoints[i][1] - canvas.originX) * r.num, r.den) + r.translateX,
                  RoundDiv((pathPoints[i][2] - canvas.originY) * r.num, r.den) + r.translateY>>]
    ELSE pathPoints

\* Mutation of the frame rule: only the extents are compared.
IsFrameRectBySize(el, canvas) ==
    \/ el.fullSize
    \/ /\ canvas.svgWidth > 0 /\ canvas.svgHeight > 0
       /\ Abs(el.width - canvas.svgWidth) <= Unit
       /\ Abs(el.height - canvas.svgHeight) <= Unit

\* The background-frame rule for a rect element.
IsFrameRect(el, canvas) ==
    \/ el.fullSize
    \/ /\ canvas.svgWidth > 0 /\ canvas.svgHeight > 0
       /\ Abs(el.x - canvas.originX) <= Unit
       /\ Abs(el.y - canvas.originY) <= Unit
       /\ Abs(el.width - canvas.svgWidth) <= Unit
       /\ Abs(el.height - canvas.svgHeight) <= Unit

\* Math.abs(first[0] - last[0]) < 0.1 && Math.abs(first[1] - last[1]) < 0.1
EndsMeet(simp) ==
    /\ 10 * Abs(simp[1][1] - simp[Len(simp)][1]) < Unit
    /\ 10 * Abs(simp[1][2] - simp[Len(simp)][2]) < Unit

\* Mutation: a subpath is dropped only if simplification leaves fewer than
\* 2 points.
SubpathShapesKeepShort(pathPoints, isClosed, canvas, eps, resize, minDist) ==
    IF Len(pathPoints) < 2 THEN <<>>
    ELSE LET simp == RamerDouglasPeucker(TransformPoints(pathPoints, canvas, resize), eps)
             final == FilterClosePoints(simp, minDist)
         IN  IF Len(simp) < 2 THEN <<>>
             ELSE <<Shape(final, isClosed \/ EndsMeet(simp))>>

\* Mutation: closure is inferred from the ends of the deduplicated points.
SubpathShapesFinalEnds(pathPoints, isClosed, canvas, eps, resize, minDist) ==
    IF Len(pathPoints) < 2 THEN <<>>
    ELSE LET simp == RamerDouglasPeucker(TransformPoints(pathPoints, canvas, resize), eps)
             final == FilterClosePoints(simp, minDist)
         IN  IF Len(simp) < 2 \/ Len(final) < 2 THEN <<>>
             ELSE <<Shape(final, isClosed \/ EndsMeet(final))>>

\* The body of subPaths.forEach: the Shapes (none or one) a subpath emits.
SubpathShapes(pathPoints, isClosed, canvas, eps, resize, minDist) ==
    IF Len(pathPoints) < 2 THEN <<>>
    ELSE LET simp == RamerDouglasPeucker(TransformPoints(pathPoints, canvas, resize), eps)
             final == FilterClosePoints(simp, minDist)
         IN  IF Len(simp) < 2 \/ Len(final) < 2 THEN <<>>
             ELSE <<Shape(final, isClosed \/ EndsMeet(simp))>>

RECURSIVE Flatten(_)
Flatten(seqs) == IF seqs = <<>> THEN <<>> ELSE Head(seqs) \o Flatten(Tail(seqs))

\* The body of elements.forEach: the Shapes an element emits.
ElementShapes(el, canvas, eps, resize, minDist) ==
    IF el.tag = "rect" /\ IsFrameRect(el, canvas) THEN <<>>
    ELSE LET path == ShapeToPath(el)
             subPaths == ParsePathData(path.d)
         IN  Flatten([k \in 1..Len(subPaths) |->
                        SubpathShapes(subPaths[k], path.isClosed, canvas, eps, resize, minDist)])

\* doc.querySelectorAll('path, rect, circle, ellipse, line, polyline, polygon')
RECURSIVE SelectShapes(_)
SelectShapes(elements) ==
    IF elements = <<>> THEN <<>>
    ELSE (IF Head(elements).tag \in RecognizedTags THEN <<Head(elements)>> ELSE <<>>)
            \o SelectShapes(Tail(elements))

\* The Shapes processSVG emits for a document, in document order.
EmittedShapes(doc, eps, resize, minDist) ==
    LET elements == SelectShapes(doc.elements)
    IN  Flatten([i \in 1..Len(elements) |->
                    ElementShapes(elements[i], Canvas(doc), eps, resize, minDist)])

\* allShapesCoords: one coordsStr per emitted Shape.
AllShapesCoords(doc, eps, resize, minDist) ==
    LET emitted == EmittedShapes(doc, eps, resize, minDist)
    IN  [i \in 1..Len(emitted) |-> PointsToChars(emitted[i].points, emitted[i].isClosed)]

ParseFailed == "Failed to parse SVG file."
NoValidShapes == "No valid shapes found in the SVG."
NoCoordinates == "Could not extract any processable coordinates from the SVG's shapes."

Resolved(text) == [kind |-> "resolved", text |-> text, error |-> ""]
Rejected(error) == [kind |-> "rejected", text |-> <<>>, error |-> error]
Pending == [kind |-> "pending", text |-> <<>>, error |-> ""]

\* Mutation: the check of elements.length is missing.
NeverEmpty(elements) == FALSE

\* elements.length === 0
NoElements(elements) == Len(elements) = 0

\* processSVG.  DOMParser always yields a documentElement, so the missing
\* root rejection is not reachable and has no branch here.
ProcessSVG(doc, eps, resize, minDist) ==
    IF doc.parserError THEN Rejected(ParseFailed)
    ELSE IF NoElements(SelectShapes(doc.elements)) THEN Rejected(NoValidShapes)
    ELSE LET all == AllShapesCoords(doc, eps, resize, minDist)
         IN  IF Len(all) = 0 THEN Rejected(NoCoordinates)
             ELSE Resolved(Join(all, <<"\n", "\n">>))

NoSvg == [parserError |-> FALSE, viewBox |-> <<>>, width |-> 0, height |-> 0,
          elements |-> <<>>]

\* The variables of processSVG while another function is run.
SvgIdle ==
    /\ svg = NoSvg
    /\ shouldResize = FALSE
    /\ allShapesCoords = <<>>
    /\ outcome = Pending

\* useState(null) for draggedPointInfo
NoDrag == [shapeIndex |-> 0, pointIndex |-> 0]

\* The editor as App and DotPreview construct it: history = [''],
\* historyIndex at its only entry, no drag, no image.
EditorIdle ==
    /\ history = <<<<>>>>
    /\ historyIndex = 1
    /\ draggedPointInfo = NoDrag
    /\ backgroundImage = FALSE

\* The variables of DotPreview while another function is run.
TextIdle ==
    /\ EditorIdle
    /\ document = <<>>
    /\ coordinates = <<>>
    /\ shapes = <<>>
    /\ reserialized = <<>>

(***************************************************************************)
(* SpecSimplify: the simplifier and the deduplication pass applied to      *)
(* every point sequence of the grid.                                       *)
(***************************************************************************)
GridPoints == {<<x, y>> : x \in 0..MaxX, y \in YCoords}
GridSeqs == UNION {[1..n -> GridPoints] : n \in 0..MaxPts}

InitSimplify ==
    /\ pc = "start"
    /\ points \in GridSeqs
    /\ epsilon = 0
    /\ minDistance = 0
    /\ simplified = <<>>
    /\ finalPoints = <<>>
    /\ pathData = <<>> /\ interp = InterpInit
    /\ SvgIdle /\ TextIdle

\* const simplified = ramerDouglasPeucker(transformedPoints, epsilon)
Simplify(eps) ==
    /\ pc = "start"
    /\ epsilon' = eps
    /\ simplified' = RamerDouglasPeucker(points, eps)
    /\ pc' = "simplified"
    /\ UNCHANGED <<points, minDistance, finalPoints, pathVars, svgVars, textVars, editorVars>>

\* if (simplified.length < 2) return; ... finalPoints = filteredPoints
Deduplicate(minDist) ==
    /\ pc = "simplified"
    /\ Len(simplified) >= 2
    /\ minDistance' = minDist
    /\ finalPoints' = FilterClosePoints(simplified, minDist)
    /\ pc' = "deduplicated"
    /\ UNCHANGED <<points, epsilon, simplified, pathVars, svgVars, textVars, editorVars>>

NextSimplify ==
    \/ \E eps \in 1..MaxEps : Simplify(eps)
    \/ \E minDist \in 0..MaxMinDist : Deduplicate(minDist)

SpecSimplify == InitSimplify /\ [][NextSimplify]_vars

(***************************************************************************)
(* SpecPath: parsePathData run command by command over every description   *)
(* of up to MaxCmds commands.                                              *)
(***************************************************************************)
CurveGroupA == <<0, 10 * Unit, 10 * Unit, 10 * Unit, 10 * Unit, 0>>
CurveGroupB == <<20 * Unit, 0, 20 * Unit, 10 * Unit, 30 * Unit, 10 * Unit>>

\* k six-argument groups, alternately CurveGroupA and CurveGroupB.
RECURSIVE CurveArgs(_)
CurveArgs(k) ==
    IF k = 0 THEN <<>>
    ELSE CurveArgs(k - 1) \o (IF k % 2 = 1 THEN CurveGroupA ELSE CurveGroupB)

MoveCommands ==
    {Command(l, a) : l \in {"M", "m"},
                     a \in {<<0, 0>>, <<10 * Unit, 0, 20 * Unit, 10 * Unit>>}}
LineCommands == {Command(l, <<10 * Unit, 10 * Unit>>) : l \in {"L", "l"}}
HorizontalCommands == {Command("H", <<20 * Unit>>), Command("h", <<5 * Unit>>)}
VerticalCommands == {Command("V", <<20 * Unit>>), Command("v", <<5 * Unit>>)}
CurveCommands == {Command(l, CurveArgs(k)) : l \in {"C", "c"}, k \in 1..MaxCurveGroups}
CloseCommands == {Command("Z", <<>>), Command("z", <<>>)}
UnsupportedCommands == {Command("A", <<5 * Unit, 5 * Unit, 0, 1, 0, 10 * Unit, 0>>),
                        Command("q", <<10 * Unit, 0, 10 * Unit, 10 * Unit>>)}

InitPath ==
    /\ pc = "parsing"
    /\ pathData = <<>>
    /\ interp = InterpInit
    /\ points = <<>> /\ epsilon = 0 /\ minDistance = 0
    /\ simplified = <<>> /\ finalPoints = <<>>
    /\ SvgIdle /\ TextIdle

\* One iteration of commands.forEach.
Consume(command) ==
    /\ pc = "parsing"
    /\ Len(pathData) < MaxCmds
    /\ pathData' = Append(pathData, command)
    /\ interp' = ApplyCommand(interp, command)
    /\ UNCHANGED <<pc, simplifyVars, svgVars, textVars, editorVars>>

MoveTo == \E command \in MoveCommands : Consume(command)
LineTo == \E command \in LineCommands : Consume(command)
HorizontalLineTo == \E command \in HorizontalCommands : Consume(command)
VerticalLineTo == \E command \in VerticalCommands : Consume(command)
CurveTo == \E command \in CurveCommands : Consume(command)
ClosePath == \E command \in CloseCommands : Consume(command)
Unsupported == \E command \in UnsupportedCommands : Consume(command)

\* The end of parsePathData: the working subpath is emitted if non-empty.
EndOfInput ==
    /\ pc = "parsing"
    /\ pc' = "parsed"
    /\ interp' = [interp EXCEPT !.paths = FinishPaths(interp), !.currentPath = <<>>]
    /\ UNCHANGED <<pathData, simplifyVars, svgVars, textVars, editorVars>>

NextPath ==
    \/ MoveTo \/ LineTo \/ HorizontalLineTo \/ VerticalLineTo
    \/ CurveTo \/ ClosePath \/ Unsupported
    \/ EndOfInput

SpecPath == InitPath /\ [][NextPath]_vars

(***************************************************************************)
(* SpecSVG: processSVG on bounded svg documents.                           *)
(***************************************************************************)
\* <svg width="100" height="100">
PlainCanvas == [viewBox |-> <<>>, width |-> 100 * Unit, height |-> 100 * Unit]
\* <svg> without viewBox, width or height
NoCanvas == [viewBox |-> <<>>, width |-> 0, height |-> 0]
\* <svg viewBox="10 10 100 100" width="50" height="50">
ViewBoxCanvas == [viewBox |-> <<10 * Unit, 10 * Unit, 100 * Unit, 100 * Unit>>,
                  width |-> 50 * Unit, height |-> 50 * Unit]
\* <svg viewBox="10 10 400 400">: resized by 1.8 and centred vertically
LargeCanvas == [viewBox |-> <<10 * Unit, 10 * Unit, 400 * Unit, 400 * Unit>>,
                width |-> 0, height |-> 0]
Canvases == {PlainCanvas, NoCanvas, ViewBoxCanvas, LargeCanvas}

ExampleRect == Rect(10 * Unit, 10 * Unit, 80 * Unit, 80 * Unit)
Rects ==
    {ExampleRect,
     Rect(0, 0, 100 * Unit, 100 * Unit),
     Rect(Unit, 0, 101 * Unit, 100 * Unit),
     Rect(Unit, Unit, 100 * Unit, 100 * Unit),
     Rect(2 * Unit, 0, 100 * Unit, 100 * Unit),
     Rect(2 * Unit, 2 * Unit, 100 * Unit, 100 * Unit),
     Rect(10 * Unit, 10 * Unit, 100 * Unit, 100 * Unit),
     FullSizeRect}
\* M 0 0 L 50 0 L 0 0.05: ends within 0.1 of each other, no closepath
NearlyClosedPath ==
    Path(<<Command("M", <<0, 0>>), Command("L", <<50 * Unit, 0>>), Command("L", <<0, 5>>)>>)
\* M 0 0 L 40 0 L 40 30 z m 60 60 l 20 0
TwoSubPaths ==
    Path(<<Command("M", <<0, 0>>), Command("L", <<40 * Unit, 0, 40 * Unit, 30 * Unit>>),
           Command("z", <<>>), Command("m", <<60 * Unit, 60 * Unit>>),
           Command("l", <<20 * Unit, 0>>)>>)
\* M 5 5: a subpath of one point
SinglePointPath == Path(<<Command("M", <<5 * Unit, 5 * Unit>>)>>)
Elements ==
    Rects \cup
    {Line(0, 0, 50 * Unit, 50 * Unit),
     SinglePointPath,
     NearlyClosedPath,
     TwoSubPaths,
     Circle(50 * Unit, 50 * Unit, 40 * Unit),
     Polygon(<<<<0, 0>>, <<30 * Unit, 0>>, <<0, 40 * Unit>>>>),
     Other("g")}

ElementSeqs == UNION {[1..n -> Elements] : n \in 0..MaxElems}

Svg(canvas, elements) ==
    [parserError |-> FALSE, viewBox |-> canvas.viewBox, width |-> canvas.width,
     height |-> canvas.height, elements |-> elements]
\* A document DOMParser reports a parsererror for.
BrokenSvg == [NoSvg EXCEPT !.parserError = TRUE]

SvgDocs == {Svg(c, els) : c \in Canvases, els \in ElementSeqs} \cup {BrokenSvg}

\* epsilon: the default 10 and a tolerance that merges corners 80 apart.
Epsilons == {10 * Unit, 60 * Unit}
\* minDistance: off and the default 0.5.
MinDistances == {0, Unit \div 2}
\* Resizing is run on the canvases whose scaled squared distances stay in
\* integer range: the undeclared one and the large one.
ResizeChoices(doc) ==
    IF Canvas(doc).svgWidth \in {0, LargeCanvas.viewBox[3]} THEN BOOLEAN ELSE {FALSE}

InitSVG ==
    /\ pc = "loaded"
    /\ svg \in SvgDocs
    /\ shouldResize = FALSE
    /\ allShapesCoords = <<>>
    /\ outcome = Pending
    /\ points = <<>> /\ epsilon = 0 /\ minDistance = 0
    /\ simplified = <<>> /\ finalPoints = <<>>
    /\ pathData = <<>> /\ interp = InterpInit
    /\ TextIdle

\* One call of processSVG(svgString, epsilon, shouldResize, minDistance).
Process(eps, resize, minDist) ==
    /\ pc = "loaded"
    /\ pc' = "processed"
    /\ epsilon' = eps
    /\ minDistance' = minDist
    /\ shouldResize' = resize
    /\ allShapesCoords' = IF svg.parserError \/ NoElements(SelectShapes(svg.elements))
                          THEN <<>>
                          ELSE AllShapesCoords(svg, eps, resize, minDist)
    /\ outcome' = ProcessSVG(svg, eps, resize, minDist)
    /\ UNCHANGED <<svg, points, simplified, finalPoints, pathVars, textVars, editorVars>>

NextSVG ==
    \E eps \in Epsilons, resize \in ResizeChoices(svg), minDist \in MinDistances :
        Process(eps, resize, minDist)

SpecSVG == InitSVG /\ [][NextSVG]_vars

(***************************************************************************)
(* SpecStages: processSVG on documents of one element, on every canvas and *)
(* with tolerances on both sides of each other.                            *)
(***************************************************************************)
\* <svg viewBox="10 10 0 0">: an origin without extents
OriginOnlyCanvas == [viewBox |-> <<10 * Unit, 10 * Unit, 0, 0>>, width |-> 0, height |-> 0]
StageCanvases == Canvases \cup {OriginOnlyCanvas}

\* M 0 0 L 20 0 L 3 2 L 0 0.05: the last point meets the first and lies
\* within 5 of the point before it.
ReturningPath ==
    Path(<<Command("M", <<0, 0>>), Command("L", <<20 * Unit, 0>>),
           Command("L", <<3 * Unit, 2 * Unit>>), Command("L", <<0, 5>>)>>)
\* M 0 0 L 20 0 L 0 0.05 L 3 2: the last point but one meets the first and
\* the last lies within 5 of it.
PassingPath ==
    Path(<<Command("M", <<0, 0>>), Command("L", <<20 * Unit, 0>>),
           Command("L", <<0, 5>>), Command("L", <<3 * Unit, 2 * Unit>>)>>)
\* A polygon whose last corner lies within 5 of its first.
SmallPolygon == Polygon(<<<<0, 0>>, <<30 * Unit, 0>>, <<3 * Unit, 2 * Unit>>>>)
\* Circles and ellipses of several radii, a radius of 0 included.
RoundElements ==
    {Circle(5 * Unit, 5 * Unit, 0),
     Circle(20 * Unit, 30 * Unit, 10 * Unit),
     Ellipse(50 * Unit, 50 * Unit, 30 * Unit, 20 * Unit)}
StageElements == Elements \cup {ReturningPath, PassingPath, SmallPolygon} \cup RoundElements

StageSvgs == {Svg(c, <<el>>) : c \in StageCanvases, el \in StageElements}

\* epsilon 1 and the default 10; minDistance off, the default 0.5, and 5.
FineEpsilons == {Unit, 10 * Unit}
WideMinDistances == {0, Unit \div 2, 5 * Unit}

InitStages ==
    /\ pc = "loaded"
    /\ svg \in StageSvgs
    /\ shouldResize = FALSE
    /\ allShapesCoords = <<>>
    /\ outcome = Pending
    /\ points = <<>> /\ epsilon = 0 /\ minDistance = 0
    /\ simplified = <<>> /\ finalPoints = <<>>
    /\ pathData = <<>> /\ interp = InterpInit
    /\ TextIdle

NextStages ==
    \E eps \in FineEpsilons, resize \in ResizeChoices(svg), minDist \in WideMinDistances :
        Process(eps, resize, minDist)

SpecStages == InitStages /\ [][NextStages]_vars

(***************************************************************************)
(* SpecEditor: the coordinate text under the handlers of DotPreview and    *)
(* App.  coordinates is history[historyIndex] and shapes is the memo of    *)
(* coordinates; both follow every change of the history.  A shapeIndex or  *)
(* pointIndex of the code (0-based) is its position here (1-based).        *)
(***************************************************************************)
MaxHistory == 3      \* longest history the model records

\* "[1,2]\n\n[7,8]": two open shapes of one point each.
TypedText ==
    <<"[", "1", ",", "2", "]", "\n", "\n", "[", "7", ",", "8", "]">>

\* Texts typed or pasted into the textarea: the cleared text and TypedText.
EditorTexts == {<<>>, TypedText}

\* Positions of the pointer in svg coordinates.
PointerPositions == {<<5 * Unit, 5 * Unit>>}

\* The circles DotPreview renders: one per point of every shape.
Circles ==
    {[shapeIndex |-> s, pointIndex |-> p] :
        s \in 1..Len(shapes), p \in 1..MaxShapePts + MaxHistory}

\* A text handleProcess leaves as the only history entry: two shapes as
\* processSVG joins them.
ProcessedText ==
    Join(<<PointsToChars(<<<<Unit, 2 * Unit>>, <<3 * Unit, 4 * Unit>>, <<3 * Unit, 2 * Unit>>>>,
                         TRUE),
           PointsToChars(<<<<7 * Unit, 8 * Unit>>, <<9 * Unit, 8 * Unit>>>>, FALSE)>>,
         <<"\n", "\n">>)

\* The editor after a file was chosen: an image (the history is reset to
\* ['']), or an svg, processed or not yet.
InitEditor ==
    /\ pc = "editing"
    /\ \/ backgroundImage = TRUE /\ history = <<<<>>>>
       \/ backgroundImage = FALSE /\ history \in {<<<<>>>>, <<ProcessedText>>}
    /\ historyIndex = 1
    /\ coordinates = history[1]
    /\ shapes = Deserialize(coordinates)
    /\ draggedPointInfo = NoDrag
    /\ document = <<>> /\ reserialized = <<>>
    /\ points = <<>> /\ epsilon = 0 /\ minDistance = 0
    /\ simplified = <<>> /\ finalPoints = <<>>
    /\ pathData = <<>> /\ interp = InterpInit
    /\ SvgIdle

\* handleCoordinatesUpdate; coordinates is history[historyIndex].  A changed
\* text makes DotPreview render again.
HandleCoordinatesUpdate(newCoords) ==
    \E text \in {newCoords} :
        IF text = coordinates
        THEN UNCHANGED <<pc, history, historyIndex, coordinates>>
        ELSE /\ historyIndex < MaxHistory
             /\ history' = Append(SubSeq(history, 1, historyIndex), text)
             /\ historyIndex' = Len(history')
             /\ coordinates' = text
             /\ pc' = "render"

EditorFrame == UNCHANGED <<simplifyVars, pathVars, svgVars, document, reserialized,
                           backgroundImage>>

\* The textarea's onChange.
TextEdit ==
    \E text \in EditorTexts :
        /\ pc = "editing"
        /\ HandleCoordinatesUpdate(text)
        /\ UNCHANGED <<shapes, draggedPointInfo>>
        /\ EditorFrame

\* newShapes of handleCanvasClick
AfterClick(doc, newPoint) ==
    IF Len(doc) = 0 \/ doc[Len(doc)].isClosed
    THEN Append(doc, Shape(<<newPoint>>, FALSE))
    ELSE [doc EXCEPT ![Len(doc)].points = Append(@, newPoint)]

\* A click on the canvas, not on a circle, with a background image loaded.
HandleCanvasClick ==
    \E newPoint \in PointerPositions :
        /\ pc = "editing"
        /\ backgroundImage
        /\ HandleCoordinatesUpdate(ShapesToString(AfterClick(shapes, newPoint)))
        /\ UNCHANGED <<shapes, draggedPointInfo>>
        /\ EditorFrame

\* array.splice(index, 1)
Splice(seq, index) == SubSeq(seq, 1, index - 1) \o SubSeq(seq, index + 1, Len(seq))

\* newShapes of handleDeletePoint
AfterDelete(doc, shapeIndex, pointIndex) ==
    LET remaining == Splice(doc[shapeIndex].points, pointIndex)
    IN  IF Len(remaining) = 0
        THEN Splice(doc, shapeIndex)
        ELSE [doc EXCEPT ![shapeIndex].points = remaining]

\* The circles that exist: those of the points of the current shapes.
IsCircle(c) ==
    /\ c.shapeIndex \in 1..Len(shapes)
    /\ c.pointIndex \in 1..Len(shapes[c.shapeIndex].points)

\* onContextMenu of a circle
HandleDeletePoint ==
    \E c \in Circles :
        /\ pc = "editing"
        /\ IsCircle(c)
        /\ HandleCoordinatesUpdate(
                ShapesToString(AfterDelete(shapes, c.shapeIndex, c.pointIndex)))
        /\ UNCHANGED <<shapes, draggedPointInfo>>
        /\ EditorFrame

\* onMouseDown of a circle
HandleMouseDown ==
    \E c \in Circles :
        /\ pc = "editing"
        /\ IsCircle(c)
        /\ draggedPointInfo' = c
        /\ UNCHANGED <<pc, history, historyIndex, coordinates, shapes>>
        /\ EditorFrame

\* onMouseUp and onMouseLeave of the svg
HandleMouseUp ==
    /\ pc = "editing"
    /\ draggedPointInfo' = NoDrag
    /\ UNCHANGED <<pc, history, historyIndex, coordinates, shapes>>
    /\ EditorFrame

\* points[pointIndex] = newPoint on an array: an index past the end
\* leaves holes before it.
WritePoint(pts, pointIndex, newPoint) ==
    [i \in 1..(IF pointIndex > Len(pts) THEN pointIndex ELSE Len(pts)) |->
        IF i = pointIndex THEN newPoint
        ELSE IF i <= Len(pts) THEN pts[i]
        ELSE Hole]

\* onMouseMove of the svg.  With no shape at shapeIndex the assignment
\* throws a TypeError and the handler ends without an update.
HandleMouseMove ==
    \E newPoint \in PointerPositions :
        /\ pc = "editing"
        /\ draggedPointInfo # NoDrag
        /\ IF draggedPointInfo.shapeIndex > Len(shapes)
           THEN UNCHANGED <<pc, history, historyIndex, coordinates>>
           ELSE HandleCoordinatesUpdate(
                    ShapesToString(
                        [shapes EXCEPT ![draggedPointInfo.shapeIndex].points =
                            WritePoint(@, draggedPointInfo.pointIndex, newPoint)]))
        /\ UNCHANGED <<shapes, draggedPointInfo>>
        /\ EditorFrame

\* The history position moves, and coordinates with it.
MoveInHistory(index) ==
    /\ historyIndex' = index
    /\ coordinates' = history[index]
    /\ pc' = "render"
    /\ UNCHANGED <<history, shapes, draggedPointInfo>>
    /\ EditorFrame

HandleUndo ==
    /\ pc = "editing"
    /\ historyIndex > 1
    /\ MoveInHistory(historyIndex - 1)

HandleRedo ==
    /\ pc = "editing"
    /\ historyIndex < Len(history)
    /\ MoveInHistory(historyIndex + 1)

\* DotPreview renders with the new coordinates before the next event is
\* handled: the shapes memo is recomputed.
RenderShapes ==
    /\ pc = "render"
    /\ shapes' = Deserialize(coordinates)
    /\ pc' = "editing"
    /\ UNCHANGED <<history, historyIndex, coordinates, draggedPointInfo>>
    /\ EditorFrame

NextEditor ==
    \/ TextEdit
    \/ HandleCanvasClick
    \/ HandleDeletePoint
    \/ HandleMouseDown
    \/ HandleMouseUp
    \/ HandleMouseMove
    \/ HandleUndo
    \/ HandleRedo
    \/ RenderShapes

SpecEditor == InitEditor /\ [][NextEditor]_vars

(***************************************************************************)
(* SpecRoundTrip: a serializer's text is deserialized by DotPreview and    *)
(* the Document is serialized again by shapesToString.                     *)
(***************************************************************************)
\* (10.5, -0.25) and (0.07, -1)
DocPoints == {<<1050, -25>>, <<7, -Unit>>}
DocShapes ==
    {Shape(pts, isClosed) :
        pts \in UNION {[1..n -> DocPoints] : n \in 1..MaxShapePts}, isClosed \in BOOLEAN}
Documents == UNION {[1..n -> DocShapes] : n \in 0..MaxShapes}

\* The uploaded documents: one element or none on the plain canvas.
RoundTripSvgs ==
    {Svg(PlainCanvas, els) : els \in {<<>>} \cup {<<el>> : el \in Elements}}

IdleState ==
    /\ points = <<>> /\ epsilon = 0 /\ minDistance = 0
    /\ simplified = <<>> /\ finalPoints = <<>>
    /\ pathData = <<>> /\ interp = InterpInit
    /\ shouldResize = FALSE /\ allShapesCoords = <<>> /\ outcome = Pending
    /\ coordinates = <<>> /\ shapes = <<>> /\ reserialized = <<>>
    /\ EditorIdle

InitRoundTrip ==
    /\ IdleState
    /\ \/ pc = "svg" /\ svg \in RoundTripSvgs /\ document = <<>>
       \/ pc = "document" /\ svg = NoSvg /\ document \in Documents

\* handleProcess: the text processSVG resolves with becomes the coordinates;
\* a rejection leaves no text.
HandleProcess(eps, minDist) ==
    /\ pc = "svg"
    /\ outcome' = ProcessSVG(svg, eps, FALSE, minDist)
    /\ epsilon' = eps
    /\ minDistance' = minDist
    /\ allShapesCoords' = IF NoElements(SelectShapes(svg.elements)) THEN <<>>
                          ELSE AllShapesCoords(svg, eps, FALSE, minDist)
    /\ coordinates' = outcome'.text
    /\ pc' = IF outcome'.kind = "resolved" THEN "text" ELSE "failed"
    /\ UNCHANGED <<svg, shouldResize, points, simplified, finalPoints, pathVars,
                   document, shapes, reserialized, editorVars>>

\* onUpdateCoordinates(shapesToString(newShapes))
SerializeDocument ==
    /\ pc = "document"
    /\ coordinates' = ShapesToString(document)
    /\ pc' = "text"
    /\ UNCHANGED <<simplifyVars, pathVars, svgVars, document, shapes, reserialized,
                   editorVars>>

\* The shapes memo is recomputed for the new coordinates.
Render ==
    /\ pc = "text"
    /\ shapes' = Deserialize(coordinates)
    /\ pc' = "rendered"
    /\ UNCHANGED <<simplifyVars, pathVars, svgVars, document, coordinates, reserialized,
                   editorVars>>

\* shapesToString on the memo.
Reserialize ==
    /\ pc = "rendered"
    /\ reserialized' = ShapesToString(shapes)
    /\ pc' = "reserialized"
    /\ UNCHANGED <<simplifyVars, pathVars, svgVars, document, coordinates, shapes,
                   editorVars>>

NextRoundTrip ==
    \/ \E eps \in Epsilons, minDist \in MinDistances : HandleProcess(eps, minDist)
    \/ SerializeDocument
    \/ Render
    \/ Reserialize

SpecRoundTrip == InitRoundTrip /\ [][NextRoundTrip]_vars

(***************************************************************************)
(* SpecDeserialize: the shapes memo on hand-edited texts, built from       *)
(* fragments: tokens, blank lines, halves of a token, stray characters.    *)
(***************************************************************************)
Fragments ==
    {<<"[", "1", ",", "2", "]">>,
     <<"[", " ", "0", ".", "5", " ", ",", " ", "-", "3", " ", ",", " ", "-", "1", " ", "]">>,
     <<"\n", "\n">>,
     <<"[", "1", ",">>,
     <<"2", "]">>,
     <<"x">>,
     <<",", "\n">>,
     <<"[", "7", ",", "8", ",", "-", "1", "2", "]">>,
     <<"\r", "\n">>,
     <<" ">>}
FragmentSeqs == UNION {[1..n -> Fragments] : n \in 0..MaxFrags}
Texts == {Flatten(fs) : fs \in FragmentSeqs}

InitDeserialize ==
    /\ pc = "typed"
    /\ coordinates \in Texts
    /\ document = <<>> /\ shapes = <<>> /\ reserialized = <<>>
    /\ points = <<>> /\ epsilon = 0 /\ minDistance = 0
    /\ simplified = <<>> /\ finalPoints = <<>>
    /\ pathData = <<>> /\ interp = InterpInit
    /\ SvgIdle
    /\ EditorIdle

\* The shapes memo of DotPreview for the typed text.
RenderTyped ==
    /\ pc = "typed"
    /\ shapes' = Deserialize(coordinates)
    /\ pc' = "shown"
    /\ UNCHANGED <<simplifyVars, pathVars, svgVars, document, coordinates, reserialized,
                   editorVars>>

NextDeserialize == RenderTyped

SpecDeserialize == InitDeserialize /\ [][NextDeserialize]_vars

(***************************************************************************)
(* Claims about the simplifier and the deduplication pass (SpecSimplify).  *)
(***************************************************************************)
Cross(a, b, p) == (b[1] - a[1]) * (p[2] - a[2]) - (b[2] - a[2]) * (p[1] - a[1])

Collinear(pts) ==
    \A i, j, k \in 1..Len(pts) : Cross(pts[i], pts[j], pts[k]) = 0

Min(a, b) == IF a < b THEN a ELSE b
Max(a, b) == IF a > b THEN a ELSE b

\* p lies on the closed segment from a to b.
OnSegment(p, a, b) ==
    /\ Cross(a, b, p) = 0
    /\ Min(a[1], b[1]) <= p[1] /\ p[1] <= Max(a[1], b[1])
    /\ Min(a[2], b[2]) <= p[2] /\ p[2] <= Max(a[2], b[2])

InteriorOnChord(pts) ==
    \A i \in 2..(Len(pts) - 1) : OnSegment(pts[i], pts[1], pts[Len(pts)])

EndsOf(pts) == <<pts[1], pts[Len(pts)]>>

\* C1 as stated: every sequence of 3 or more collinear points, in any order
\* along the line, is simplified to its first and last point.
C1_CollinearAnyOrder ==
    (pc # "start" /\ Len(points) >= 3 /\ Collinear(points))
        => simplified = EndsOf(points)

\* C1 amended: a sequence of 3 or more collinear points whose interior
\* points all lie on the closed segment from the first to the last point is
\* simplified, for every epsilon > 0, to exactly its first and last point.
C1_CollinearOnChord ==
    (pc # "start" /\ Len(points) >= 3 /\ Collinear(points) /\ InteriorOnChord(points))
        => simplified = EndsOf(points)

C1_Witness ==
    /\ pc = "simplified"
    /\ Len(points) >= 4
    /\ Collinear(points) /\ InteriorOnChord(points)
    /\ points[1] # points[Len(points)]
    /\ \E i \in 2..(Len(points) - 1) : points[i] \notin {points[1], points[Len(points)]}
    /\ simplified = EndsOf(points)

\* a can be obtained from b by deleting elements.
RECURSIVE IsSubsequence(_, _)
IsSubsequence(a, b) ==
    IF a = <<>> THEN TRUE
    ELSE IF b = <<>> THEN FALSE
    ELSE IF Head(a) = Head(b) THEN IsSubsequence(Tail(a), Tail(b))
    ELSE IsSubsequence(a, Tail(b))

\* C2: the simplifier's output is a subsequence of its input that starts
\* with the input's first point and ends with its last point.
C2_SubsequenceKeepsEnds ==
    pc # "start" =>
        /\ IsSubsequence(simplified, points)
        /\ Len(points) >= 1 =>
              /\ Len(simplified) >= 1
              /\ simplified[1] = points[1]
              /\ simplified[Len(simplified)] = points[Len(points)]
        /\ Len(points) >= 2 => Len(simplified) >= 2

C2_Witness ==
    /\ pc = "simplified"
    /\ Len(points) >= 4
    /\ Len(simplified) = 3
    /\ IsSubsequence(simplified, points)

\* C3: with minDistance > 0 the deduplication pass keeps the first point and
\* leaves consecutive points more than minDistance apart.
C3_DedupSpacing ==
    (pc = "deduplicated" /\ minDistance > 0) =>
        /\ Len(finalPoints) >= 1
        /\ finalPoints[1] = simplified[1]
        /\ \A i \in 1..(Len(finalPoints) - 1) :
              SqDistance(finalPoints[i], finalPoints[i + 1]) > minDistance * minDistance

C3_Witness ==
    /\ pc = "deduplicated"
    /\ minDistance > 0
    /\ Len(finalPoints) >= 2
    /\ Len(finalPoints) < Len(simplified)
    /\ finalPoints[1] = simplified[1]

\* C4: with minDistance = 0 the deduplication pass returns the simplified
\* sequence unchanged, coincident neighbours included.
C4_DedupIdentity ==
    (pc = "deduplicated" /\ minDistance = 0) => finalPoints = simplified

C4_Witness ==
    /\ pc = "deduplicated"
    /\ minDistance = 0
    /\ \E i \in 1..(Len(simplified) - 1) : simplified[i] = simplified[i + 1]
    /\ finalPoints = simplified

(***************************************************************************)
(* Claims about parsePathData (SpecPath).                                  *)
(***************************************************************************)
LastOf(seq) == seq[Len(seq)]

\* The end point of the j-th group of a curveto command met with the cursor
\* at (x0, y0): absolute groups name it, relative groups add to the cursor
\* the previous group left.
RECURSIVE CurveEnd(_, _, _, _)
CurveEnd(command, x0, y0, j) ==
    IF j = 0 THEN <<x0, y0>>
    ELSE IF command.letter = "c"
         THEN LET prev == CurveEnd(command, x0, y0, j - 1)
              IN  <<prev[1] + command.args[6 * j - 1], prev[2] + command.args[6 * j]>>
         ELSE <<command.args[6 * j - 1], command.args[6 * j]>>

\* C8: a curveto command of k six-argument groups appends exactly 10k points
\* to the working subpath, the 10th point of each group is that group's end
\* point, and the cursor ends on the last group's end point.
C8_CurveAppendsTenPerGroup ==
    [][(/\ pc = "parsing"
        /\ Len(pathData') = Len(pathData) + 1
        /\ LastOf(pathData').letter \in {"C", "c"})
       => LET command == LastOf(pathData')
              k == Len(command.args) \div 6
              before == interp.currentPath
              after == interp'.currentPath
          IN  /\ k >= 1
              /\ Len(after) = Len(before) + 10 * k
              /\ SubSeq(after, 1, Len(before)) = before
              /\ \A j \in 1..k :
                    after[Len(before) + 10 * j] = CurveEnd(command, interp.x, interp.y, j)
              /\ <<interp'.x, interp'.y>> = CurveEnd(command, interp.x, interp.y, k)
              /\ interp'.paths = interp.paths]_vars

C8_Witness ==
    /\ pc = "parsing"
    /\ Len(pathData) = 2
    /\ pathData[1].letter = "M"
    /\ pathData[2].letter = "c"
    /\ Len(pathData[2].args) = 12
    /\ Len(interp.currentPath) = 1 + 20
    /\ interp.currentPath[11] # interp.currentPath[21]
    /\ LastOf(interp.currentPath) = <<interp.x, interp.y>>

(***************************************************************************)
(* Claims about processSVG, checked under SpecSVG.                         *)
(***************************************************************************)
ExampleSvg == Svg(PlainCanvas, <<ExampleRect>>)

\* "[10,10],\n[90,10],\n[90,90],\n[10,90],\n[10,10,-1]"
ExampleText ==
    <<"[", "1", "0", ",", "1", "0", "]", ",", "\n",
      "[", "9", "0", ",", "1", "0", "]", ",", "\n",
      "[", "9", "0", ",", "9", "0", "]", ",", "\n",
      "[", "1", "0", ",", "9", "0", "]", ",", "\n",
      "[", "1", "0", ",", "1", "0", ",", "-", "1", "]">>

\* The tolerances leave the four corners of a w by h rect apart: the corner
\* opposite a diagonal lies more than eps from it, and neighbours lie more
\* than minDist from each other.
KeepsCorners(w, h, eps, minDist) ==
    /\ w > minDist /\ h > minDist
    /\ ProductGreater(w * h, w * h, eps * eps, w * w + h * h)

\* C6: processSVG on the 100 by 100 document holding only the rect at
\* (10,10) sized 80 by 80, without resizing and with tolerances that do not
\* merge the corners, resolves with exactly one shape whose points are
\* [10,10], [90,10], [90,90], [10,90], [10,10,-1].
C6_ExampleSquare ==
    (/\ pc = "processed"
     /\ svg = ExampleSvg
     /\ ~shouldResize
     /\ KeepsCorners(80 * Unit, 80 * Unit, epsilon, minDistance))
    => /\ outcome = Resolved(ExampleText)
       /\ Len(allShapesCoords) = 1
       /\ Deserialize(outcome.text) =
            <<Shape(<<<<10 * Unit, 10 * Unit>>, <<90 * Unit, 10 * Unit>>,
                      <<90 * Unit, 90 * Unit>>, <<10 * Unit, 90 * Unit>>,
                      <<10 * Unit, 10 * Unit>>>>, TRUE)>>

C6_Witness ==
    /\ pc = "processed"
    /\ svg = ExampleSvg
    /\ ~shouldResize
    /\ epsilon = 10 * Unit
    /\ 2 * minDistance = Unit
    /\ outcome.kind = "resolved"
    /\ outcome.text = ExampleText

\* The document without its i-th element.
WithoutElement(doc, i) ==
    [doc EXCEPT !.elements = SubSeq(doc.elements, 1, i - 1)
                                \o SubSeq(doc.elements, i + 1, Len(doc.elements))]

IsRectAt(i) == i \in DOMAIN svg.elements /\ svg.elements[i].tag = "rect"

\* x, y, width and height each within 1 unit of the declared canvas.
MatchesCanvas(el) ==
    LET canvas == Canvas(svg)
    IN  /\ canvas.svgWidth > 0 /\ canvas.svgHeight > 0
        /\ Abs(el.x - canvas.originX) <= Unit
        /\ Abs(el.y - canvas.originY) <= Unit
        /\ Abs(el.width - canvas.svgWidth) <= Unit
        /\ Abs(el.height - canvas.svgHeight) <= Unit

\* The rect has the width and height of the declared canvas.
SameSizeAsCanvas(el) ==
    LET canvas == Canvas(svg)
    IN  /\ canvas.svgWidth > 0 /\ canvas.svgHeight > 0
        /\ ~el.fullSize
        /\ el.width = canvas.svgWidth
        /\ el.height = canvas.svgHeight

\* None of the four edges of the rect lies on an edge of the canvas.
NoEdgeOnCanvasEdge(el) ==
    LET canvas == Canvas(svg)
        xs == {canvas.originX, canvas.originX + canvas.svgWidth}
        ys == {canvas.originY, canvas.originY + canvas.svgHeight}
    IN  /\ el.x \notin xs /\ el.x + el.width \notin xs
        /\ el.y \notin ys /\ el.y + el.height \notin ys

\* x or y lies more than 1 unit from the canvas origin.
OffOrigin(el) ==
    LET canvas == Canvas(svg)
    IN  Abs(el.x - canvas.originX) > Unit \/ Abs(el.y - canvas.originY) > Unit

\* The i-th element contributes nothing to the output.
ContributesNothing(i) ==
    allShapesCoords =
        AllShapesCoords(WithoutElement(svg, i), epsilon, shouldResize, minDistance)

\* The i-th element contributes exactly one shape: the closed outline of
\* its four corners.
ContributesOutline(i) ==
    LET el == svg.elements[i]
        before ==
            Len(AllShapesCoords([svg EXCEPT !.elements = SubSeq(svg.elements, 1, i - 1)],
                                epsilon, shouldResize, minDistance))
        outline == <<<<el.x, el.y>>, <<el.x + el.width, el.y>>,
                     <<el.x + el.width, el.y + el.height>>, <<el.x, el.y + el.height>>,
                     <<el.x, el.y>>>>
    IN  /\ Len(allShapesCoords) =
             Len(AllShapesCoords(WithoutElement(svg, i), epsilon, shouldResize,
                                 minDistance)) + 1
        /\ allShapesCoords[before + 1] = PointsToChars(outline, TRUE)
        /\ outcome.kind = "resolved"

Processed == pc = "processed" /\ ~svg.parserError

\* The tolerances under which a retained rect shows its four corners.
PlainRun(el) ==
    ~shouldResize /\ KeepsCorners(el.width, el.height, epsilon, minDistance)

\* C7 as stated: a rect matching the declared canvas origin and extents
\* (each within 1 unit) contributes no shape, while a rect of the canvas's
\* width and height with no edge on a canvas edge is retained and produces
\* a shape.
C7_NoSharedEdgeRetained ==
    Processed =>
        \A i \in DOMAIN svg.elements :
            IsRectAt(i) =>
                /\ MatchesCanvas(svg.elements[i]) => ContributesNothing(i)
                /\ (/\ SameSizeAsCanvas(svg.elements[i])
                    /\ NoEdgeOnCanvasEdge(svg.elements[i])
                    /\ PlainRun(svg.elements[i])) => ContributesOutline(i)

\* C7 amended: a rect matching the declared canvas origin and extents (each
\* within 1 unit) contributes no shape, while a rect of the canvas's width
\* and height whose x or y lies more than 1 unit from the canvas origin is
\* retained and, in a run without resizing whose tolerances do not merge
\* its corners, produces a shape.
C7_OffOriginRetained ==
    Processed =>
        \A i \in DOMAIN svg.elements :
            IsRectAt(i) =>
                /\ MatchesCanvas(svg.elements[i]) => ContributesNothing(i)
                /\ (/\ SameSizeAsCanvas(svg.elements[i])
                    /\ OffOrigin(svg.elements[i])
                    /\ PlainRun(svg.elements[i])) => ContributesOutline(i)

C7_Witness ==
    /\ Processed
    /\ Len(svg.elements) = 2
    /\ IsRectAt(1) /\ MatchesCanvas(svg.elements[1]) /\ svg.elements[1].x # Canvas(svg).originX
    /\ IsRectAt(2) /\ SameSizeAsCanvas(svg.elements[2]) /\ OffOrigin(svg.elements[2])
    /\ PlainRun(svg.elements[2])
    /\ Len(allShapesCoords) = 1

\* C9: when the parsed document holds no path, rect, circle, ellipse, line,
\* polyline or polygon element, processSVG rejects with the no-valid-shapes
\* error and produces no coordinate text.
C9_NoShapesRejected ==
    (/\ Processed
     /\ \A i \in DOMAIN svg.elements : svg.elements[i].tag \notin RecognizedTags)
    => /\ outcome = Rejected(NoValidShapes)
       /\ outcome.text = <<>>
       /\ allShapesCoords = <<>>

C9_Witness ==
    /\ Processed
    /\ Len(svg.elements) = 2
    /\ \A i \in DOMAIN svg.elements : svg.elements[i].tag \notin RecognizedTags
    /\ outcome.kind = "rejected"
    /\ outcome.error = NoValidShapes

(***************************************************************************)
(* Claims about the coordinate text.                                       *)
(***************************************************************************)
\* C5: for every text a serializer produced (the text processSVG resolved
\* with, or the text of shapesToString for a Document), deserializing it and
\* serializing the Document again with shapesToString yields the same text,
\* character for character.  Checked under SpecRoundTrip.
C5_RoundTripByteEqual ==
    pc = "reserialized" => reserialized = coordinates

IsNumberText(t) ==
    LET body == IF Len(t) > 0 /\ t[1] = "-" THEN Tail(t) ELSE t
        n == Len(body)
    IN  \E k \in 1..n :
            /\ \A j \in 1..k : IsDigit(body[j])
            /\ \/ k = n
               \/ /\ k + 2 <= n
                  /\ body[k + 1] = "."
                  /\ \A j \in (k + 2)..n : IsDigit(body[j])

\* t reads [x, y] or [x, y, -1], white space allowed around the fields.
IsTokenText(t) ==
    LET n == Len(t)
        commas == {j \in 2..(n - 1) : t[j] = ","}
        Field(a, b) == Trim(SubSeq(t, a + 1, b - 1))
    IN  /\ n >= 5
        /\ t[1] = "[" /\ t[n] = "]"
        /\ \/ \E c \in commas :
                /\ commas = {c}
                /\ IsNumberText(Field(1, c))
                /\ IsNumberText(Field(c, n))
           \/ \E c1, c2 \in commas :
                /\ c1 < c2
                /\ commas = {c1, c2}
                /\ IsNumberText(Field(1, c1))
                /\ IsNumberText(Field(c1, c2))
                /\ Field(c2, n) = <<"-", "1">>

\* Some stretch of the text is a token.
HasToken(text) ==
    \E i, j \in 1..Len(text) :
        /\ i < j
        /\ text[i] = "[" /\ text[j] = "]"
        /\ IsTokenText(SubSeq(text, i, j))

IsPoint(p) == DOMAIN p = 1..2 /\ p[1] \in Int /\ p[2] \in Int

IsDocument(doc) ==
    /\ DOMAIN doc = 1..Len(doc)
    /\ \A i \in 1..Len(doc) :
        /\ DOMAIN doc[i] = {"points", "isClosed"}
        /\ doc[i].isClosed \in BOOLEAN
        /\ \A k \in 1..Len(doc[i].points) : IsPoint(doc[i].points[k])

\* C10: the deserializer fails on no text (empty, white space, malformed,
\* partially bracketed, stray characters between tokens): it returns a
\* Document, and the Document is empty when the text holds no token [x, y]
\* or [x, y, -1].  Checked under SpecDeserialize.
C10_DeserializerTotal ==
    pc = "shown" =>
        /\ IsDocument(shapes)
        /\ ~HasToken(coordinates) => shapes = <<>>

C10_Witness ==
    /\ pc = "shown"
    /\ \E i, j \in 1..Len(coordinates) :
        i < j /\ coordinates[i] = "[" /\ coordinates[j] = "]"
    /\ \E i \in 1..Len(coordinates) : coordinates[i] = "x"
    /\ ~HasToken(coordinates)
    /\ shapes = <<>>

(***************************************************************************)
(* The stages of processSVG, subpath by subpath, for the claims about      *)
(* what a run of processSVG emits.                                         *)
(***************************************************************************)
\* The recognized elements the background-frame rule does not skip.
RECURSIVE KeptElements(_)
KeptElements(elements) ==
    IF elements = <<>> THEN <<>>
    ELSE (IF Head(elements).tag = "rect" /\ IsFrameRect(Head(elements), Canvas(svg))
          THEN <<>> ELSE <<Head(elements)>>)
            \o KeptElements(Tail(elements))

\* One extracted subpath: the closure its element's description signalled,
\* its interpreted points, the points handed to simplification, the
\* simplified points and the deduplicated points.  A subpath of fewer than
\* 2 points leaves the pipeline as it is.
StageOf(el, raw) ==
    LET handed == TransformPoints(raw, Canvas(svg), shouldResize)
        simp == IF Len(raw) < 2 THEN raw ELSE RamerDouglasPeucker(handed, epsilon)
    IN  [el |-> el,
         signalled |-> ShapeToPath(el).isClosed,
         raw |-> raw,
         handed |-> handed,
         simplified |-> simp,
         final |-> FilterClosePoints(simp, minDistance)]

\* Every subpath extracted in the run, in document order.
Stages ==
    LET kept == KeptElements(SelectShapes(svg.elements))
    IN  Flatten([i \in 1..Len(kept) |->
                    LET subPaths == ParsePathData(ShapeToPath(kept[i]).d)
                    IN  [k \in 1..Len(subPaths) |-> StageOf(kept[i], subPaths[k])]])

HasRecognized == SelectShapes(svg.elements) # <<>>

\* C11 as stated: processSVG rejects with the no-coordinates error exactly
\* when a recognized element exists and every extracted subpath has fewer
\* than 2 points after interpretation, transform and simplification; a
\* rejection yields no text, and a run in which a subpath keeps 2 or more
\* points through these stages resolves.
C11_RejectsIffSimplifiedShort ==
    Processed =>
        /\ outcome = Rejected(NoCoordinates)
             <=> (HasRecognized
                  /\ \A k \in 1..Len(Stages) : Len(Stages[k].simplified) < 2)
        /\ outcome.kind = "rejected" => (outcome.text = <<>> /\ allShapesCoords = <<>>)
        /\ (\E k \in 1..Len(Stages) : Len(Stages[k].simplified) >= 2)
             => outcome.kind = "resolved"

\* C11 amended: processSVG rejects with the no-coordinates error exactly
\* when a recognized element exists and every extracted subpath has fewer
\* than 2 points after interpretation, transform, simplification and
\* deduplication; a rejection yields no text, and a run in which a subpath
\* keeps 2 or more points through deduplication resolves.
C11_RejectsIffFinalShort ==
    Processed =>
        /\ outcome = Rejected(NoCoordinates)
             <=> (HasRecognized
                  /\ \A k \in 1..Len(Stages) : Len(Stages[k].final) < 2)
        /\ outcome.kind = "rejected" => (outcome.text = <<>> /\ allShapesCoords = <<>>)
        /\ (\E k \in 1..Len(Stages) : Len(Stages[k].final) >= 2)
             => outcome.kind = "resolved"

C11_Witness ==
    /\ Processed
    /\ outcome = Rejected(NoCoordinates)
    /\ \E k \in 1..Len(Stages) : Len(Stages[k].raw) < 2
    /\ \E k \in 1..Len(Stages) :
        Len(Stages[k].simplified) >= 2 /\ Len(Stages[k].final) < 2

(***************************************************************************)
(* Claims about the closure marker in serialized text (SpecRoundTrip).     *)
(***************************************************************************)
\* Position j closes a point: a "]" right after a digit.
IsPointEnd(text, j) == j > 1 /\ text[j] = "]" /\ IsDigit(text[j - 1])

\* The point closed at j has three fields, the third being -1.
HasMarker(text, j) ==
    LET i == CHOOSE i \in 1..(j - 1) :
                text[i] = "[" /\ \A k \in (i + 1)..(j - 1) : text[k] # "["
        commas == {k \in (i + 1)..(j - 1) : text[k] = ","}
    IN  /\ Cardinality(commas) = 2
        /\ SubSeq(text, j - 3, j - 1) = <<",", "-", "1">>

\* For each point of the text, in text order, whether it carries the marker.
Markers(text) ==
    LET ends == {j \in 1..Len(text) : IsPointEnd(text, j)}
        Nth(k) == CHOOSE j \in ends : Cardinality({i \in ends : i <= j}) = k
    IN  [k \in 1..Cardinality(ends) |-> HasMarker(text, Nth(k))]

\* For each point of the Document, in order, whether it is the last point of
\* a closed shape.
ClosingPoints(doc) ==
    Flatten([i \in 1..Len(doc) |->
                [k \in 1..Len(doc[i].points) |->
                    k = Len(doc[i].points) /\ doc[i].isClosed]])

\* C12: in serialized text a point carries the marker -1 if and only if it
\* is the last point of a closed shape, in the text of processSVG as in the
\* text of shapesToString.
C12_MarkerOnlyOnClosingPoint ==
    /\ (pc = "text" /\ svg # NoSvg)
         => Markers(coordinates) =
                ClosingPoints(EmittedShapes(svg, epsilon, shouldResize, minDistance))
    /\ (pc = "text" /\ svg = NoSvg)
         => Markers(coordinates) = ClosingPoints(document)
    /\ pc = "reserialized" => Markers(reserialized) = ClosingPoints(shapes)

C12_Witness ==
    /\ pc = "text"
    /\ svg = NoSvg
    /\ Len(document) = 2
    /\ document[1].isClosed /\ Len(document[1].points) = 2
    /\ document[1].points[1][2] = -Unit
    /\ ~document[2].isClosed /\ Len(document[2].points) = 2
    /\ document[2].points[2][2] = -Unit
    /\ Markers(coordinates) = <<FALSE, TRUE, FALSE, FALSE>>

(***************************************************************************)
(* Claims about the deserializer's grouping of tokens (SpecDeserialize).   *)
(***************************************************************************)
\* The token that starts at position i of the block, if one does: its point
\* and whether it carries the closure marker.
TokenAt(block, i) ==
    LET j == CHOOSE j \in (i + 1)..Len(block) : IsTokenText(SubSeq(block, i, j))
        commas == {k \in i..j : block[k] = ","}
        c1 == CHOOSE c \in commas : \A k \in commas : c <= k
        c2 == CHOOSE c \in commas \ {c1} : TRUE
        yEnd == IF Cardinality(commas) = 2 THEN c2 ELSE j
    IN  [point |-> <<MatchNumber(Trim(SubSeq(block, i + 1, c1 - 1)), 1).value,
                     MatchNumber(Trim(SubSeq(block, c1 + 1, yEnd - 1)), 1).value>>,
         marker |-> Cardinality(commas) = 2]

\* The tokens of a block in text order.
Tokens(block) ==
    LET starts == {i \in 1..Len(block) :
                      \E j \in (i + 1)..Len(block) : IsTokenText(SubSeq(block, i, j))}
        Nth(k) == CHOOSE i \in starts : Cardinality({h \in starts : h <= i}) = k
    IN  [k \in 1..Cardinality(starts) |-> TokenAt(block, Nth(k))]

\* The shapes a block's tokens stand for: each point joins the current
\* shape, a marked point closes and emits it, the rest is one open shape.
RECURSIVE GroupTokens(_, _, _)
GroupTokens(tokens, k, current) ==
    IF k > Len(tokens) THEN (IF current = <<>> THEN <<>> ELSE <<Shape(current, FALSE)>>)
    ELSE IF tokens[k].marker
         THEN <<Shape(Append(current, tokens[k].point), TRUE)>>
                \o GroupTokens(tokens, k + 1, <<>>)
         ELSE GroupTokens(tokens, k + 1, Append(current, tokens[k].point))

\* The blocks of a text: the stretches between blank lines.
BlocksOf(text) == SplitBlocks(Trim(ReplaceCrLf(text)), 1, 1)

\* A block with k marked tokens gives k closed shapes, then at most one
\* open shape, and every token's point is in one of them.
BlockShapesWellFormed(tokens, blockShapes) ==
    LET k == Cardinality({t \in 1..Len(tokens) : tokens[t].marker})
    IN  /\ Len(blockShapes) \in {k, k + 1}
        /\ \A h \in 1..Len(blockShapes) : blockShapes[h].isClosed <=> h <= k
        /\ Flatten([h \in 1..Len(blockShapes) |-> blockShapes[h].points])
             = [t \in 1..Len(tokens) |-> tokens[t].point]
        /\ \A h \in 1..Len(blockShapes) : Len(blockShapes[h].points) >= 1

\* C13: within a block the deserializer takes the tokens in text order,
\* appends each point to the current shape, emits the shape as closed at a
\* marked token and starts an empty one, and emits the remaining points as
\* one open shape; so a block with k markers gives k closed shapes followed
\* by at most one open shape, no shape spans two blocks, and the Document
\* lists the shapes in text order.
C13_TokensGroupedInOrder ==
    pc = "shown" =>
        LET blocks == BlocksOf(coordinates)
            perBlock == [b \in 1..Len(blocks) |-> GroupTokens(Tokens(blocks[b]), 1, <<>>)]
        IN  /\ shapes = Flatten(perBlock)
            /\ \A b \in 1..Len(blocks) :
                BlockShapesWellFormed(Tokens(blocks[b]), perBlock[b])

C13_Witness ==
    /\ pc = "shown"
    /\ Len(shapes) = 2
    /\ shapes[1].isClosed /\ Len(shapes[1].points) = 2
    /\ ~shapes[2].isClosed /\ Len(shapes[2].points) = 1
    /\ Len(BlocksOf(coordinates)) = 1

(***************************************************************************)
(* Claims about closure and the transform, checked under SpecStages.       *)
(***************************************************************************)
\* The extracted subpaths that end as a shape, in document order.
Surviving ==
    LET Survives(stage) == Len(stage.raw) >= 2 /\ Len(stage.final) >= 2
    IN  SelectSeq(Stages, Survives)

\* The k-th coordsStr ends with the closure marker.
ClosedInText(k) ==
    LET markers == Markers(allShapesCoords[k])
    IN  markers # <<>> /\ markers[Len(markers)]

\* First and last point differ by less than 0.1 in x and in y.
EndsWithinTenth(pts) ==
    /\ Abs(pts[1][1] - pts[Len(pts)][1]) * 10 < Unit
    /\ Abs(pts[1][2] - pts[Len(pts)][2]) * 10 < Unit

\* C14: a shape emitted by processSVG is closed if and only if its
\* element's path description signalled closure or the first and last of
\* the simplified, not yet deduplicated points differ by less than 0.1 in x
\* and in y; what deduplication removes or keeps does not change the flag.
C14_ClosedIffSignalledOrEndsMeet ==
    Processed =>
        /\ Len(allShapesCoords) = Len(Surviving)
        /\ \A k \in 1..Len(Surviving) :
            /\ allShapesCoords[k] = PointsToChars(Surviving[k].final, ClosedInText(k))
            /\ ClosedInText(k)
                 <=> (Surviving[k].signalled \/ EndsWithinTenth(Surviving[k].simplified))

C14_Witness ==
    /\ Processed
    /\ Len(Surviving) = 1
    /\ ~Surviving[1].signalled
    /\ EndsWithinTenth(Surviving[1].simplified)
    /\ ~EndsWithinTenth(Surviving[1].final)
    /\ ClosedInText(1)

\* The element's description is one subpath that a closepath command ends.
ClosedByCommand(el) ==
    \/ el.tag \in {"rect", "circle", "ellipse", "polygon"}
    \/ /\ el.tag = "path"
       /\ Len(el.d) >= 2
       /\ el.d[1].letter \in {"M", "m"}
       /\ el.d[Len(el.d)].letter \in {"Z", "z"}
       /\ \A k \in 2..(Len(el.d) - 1) : el.d[k].letter \notin {"M", "m", "Z", "z"}

\* The Document the resolved text stands for.
ResolvedDocument == Deserialize(outcome.text)

CanvasUnresolved == ~(Canvas(svg).svgWidth > 0 /\ Canvas(svg).svgHeight > 0)

\* C16: when shouldResize is off, or on with no positive width and height
\* resolvable, the points handed to simplification are exactly the
\* interpreter's points, for every viewBox, one with a non-zero origin and
\* zero extents included; the run then emits what it emits without
\* resizing.
C16_PointsHandedUnmodified ==
    (Processed /\ (~shouldResize \/ CanvasUnresolved)) =>
        /\ \A k \in 1..Len(Stages) : Stages[k].handed = Stages[k].raw
        /\ allShapesCoords = AllShapesCoords(svg, epsilon, FALSE, minDistance)

\* C17: a document whose only recognized elements are frame rects removed
\* by the background-frame rule is rejected with the error of a document
\* without recognized elements.
C17_OnlyFramesNoValidShapes ==
    (Processed /\ HasRecognized /\ KeptElements(SelectShapes(svg.elements)) = <<>>)
        => outcome = Rejected(NoValidShapes)

\* Each of the four edges of the rect lies within 1 unit of the
\* corresponding canvas edge.
EdgesMatchCanvas(el) ==
    LET canvas == Canvas(svg)
    IN  /\ canvas.svgWidth > 0 /\ canvas.svgHeight > 0
        /\ Abs(el.x - canvas.originX) <= Unit
        /\ Abs(el.y - canvas.originY) <= Unit
        /\ Abs((el.x + el.width) - (canvas.originX + canvas.svgWidth)) <= Unit
        /\ Abs((el.y + el.height) - (canvas.originY + canvas.svgHeight)) <= Unit

\* C18: a rect with numeric extents is skipped by the frame rule exactly
\* when each of its four edges lies within 1 unit of the corresponding
\* canvas edge; a rect with x = originX + 1 and width = canvasWidth + 1 is
\* not skipped.
C18_SkippedIffEdgesMatch ==
    Processed =>
        \A i \in DOMAIN svg.elements :
            (/\ IsRectAt(i)
             /\ ~svg.elements[i].fullSize
             /\ PlainRun(svg.elements[i])) =>
                /\ EdgesMatchCanvas(svg.elements[i]) => ContributesNothing(i)
                /\ ~EdgesMatchCanvas(svg.elements[i]) => ~ContributesNothing(i)

(***************************************************************************)
(* Claims about moveto, closepath and the end of input, checked under      *)
(* SpecPath.                                                               *)
(***************************************************************************)
\* The sum of args[first], args[first + 2], ... up to index last.
RECURSIVE SumEverySecond(_, _, _)
SumEverySecond(args, first, last) ==
    IF first > last THEN 0 ELSE args[first] + SumEverySecond(args, first + 2, last)

\* The absolute position of the k-th coordinate pair of a moveto command
\* issued with the cursor at (x, y).
MovePair(command, x, y, k) ==
    IF command.letter = "m"
    THEN <<x + SumEverySecond(command.args, 1, 2 * k - 1),
           y + SumEverySecond(command.args, 2, 2 * k)>>
    ELSE <<command.args[2 * k - 1], command.args[2 * k]>>

\* C19: the first pair of a moveto command emits the working subpath if it
\* is non-empty, starts a new working subpath holding that point and
\* records it as start point; every further pair is appended as a line
\* point (relative pairs accumulate from the preceding pair) and leaves the
\* recorded start point alone.
C19_MoveToStartsSubpath ==
    [][(/\ pc = "parsing"
        /\ Len(pathData') = Len(pathData) + 1
        /\ LastOf(pathData').letter \in {"M", "m"})
       => LET command == LastOf(pathData')
              n == Len(command.args) \div 2
          IN  /\ n >= 1
              /\ interp'.paths = IF interp.currentPath # <<>>
                                 THEN Append(interp.paths, interp.currentPath)
                                 ELSE interp.paths
              /\ interp'.currentPath =
                    [k \in 1..n |-> MovePair(command, interp.x, interp.y, k)]
              /\ <<interp'.startX, interp'.startY>> = MovePair(command, interp.x, interp.y, 1)
              /\ <<interp'.x, interp'.y>> = MovePair(command, interp.x, interp.y, n)]_vars

C19_Witness ==
    /\ pc = "parsing"
    /\ Len(pathData) = 2
    /\ pathData[1].letter = "M"
    /\ pathData[2].letter = "m"
    /\ Len(pathData[2].args) = 4
    /\ Len(interp.paths) = 1
    /\ Len(interp.currentPath) = 2
    /\ interp.currentPath[1] = <<interp.startX, interp.startY>>
    /\ interp.currentPath[2] = <<interp.x, interp.y>>
    /\ interp.currentPath[1] # interp.currentPath[2]
    /\ interp.currentPath[1] # <<pathData[2].args[1], pathData[2].args[2]>>

\* C20: a closepath command met with a non-empty working subpath appends
\* the recorded start point, emits the subpath and leaves the working
\* subpath empty; met with an empty one it emits nothing.  Subpaths are
\* emitted in the order they are finalized, none of them is empty, and a
\* working subpath left non-empty at the end of the input is emitted last,
\* without an appended start point.
C20_ClosePathEmits ==
    [][/\ (/\ pc = "parsing"
           /\ Len(pathData') = Len(pathData) + 1
           /\ LastOf(pathData').letter \in {"Z", "z"})
          => IF interp.currentPath # <<>>
             THEN /\ interp'.paths =
                        Append(interp.paths,
                               Append(interp.currentPath, <<interp.startX, interp.startY>>))
                  /\ interp'.currentPath = <<>>
             ELSE /\ interp'.paths = interp.paths
                  /\ interp'.currentPath = <<>>
       /\ (pc = "parsing" /\ pc' = "parsed")
          => /\ interp'.paths = IF interp.currentPath # <<>>
                                THEN Append(interp.paths, interp.currentPath)
                                ELSE interp.paths
             /\ interp'.paths = ParsePathData(pathData)
       /\ Len(interp'.paths) \in {Len(interp.paths), Len(interp.paths) + 1}
       /\ SubSeq(interp'.paths, 1, Len(interp.paths)) = interp.paths
       /\ \A k \in 1..Len(interp'.paths) : interp'.paths[k] # <<>>]_vars

C20_Witness ==
    /\ pc = "parsed"
    /\ Len(pathData) = 3
    /\ pathData[1].letter \in {"M", "m"}
    /\ pathData[2].letter \in {"Z", "z"}
    /\ pathData[3].letter \in {"L", "l"}
    /\ Len(interp.paths) = 2
    /\ Len(interp.paths[1]) = 3
    /\ interp.paths[1][3] = interp.paths[1][1]
    /\ interp.paths[1][3] # interp.paths[1][2]
    /\ Len(interp.paths[2]) = 1

\* The letter is one the switch of parsePathData has a case for.
IsSupported(command) ==
    command.letter \in {"M", "m", "L", "l", "H", "h", "V", "v", "C", "c", "Z", "z"}

\* The description with the unsupported commands removed.
SupportedOnly(commands) == SelectSeq(commands, IsSupported)

\* C21: a command whose letter is not one of M, L, H, V, C, Z (either case)
\* adds no point and leaves the cursor, the recorded start, the working
\* subpath and the emitted subpaths unchanged; the subpaths produced for a
\* description are those produced for it with such commands removed.
C21_UnsupportedCommandSkipped ==
    [][/\ (/\ pc = "parsing"
           /\ Len(pathData') = Len(pathData) + 1
           /\ ~IsSupported(LastOf(pathData')))
          => /\ interp' = interp
             /\ pc' = "parsing"
       /\ interp' = (IF pc' = "parsed"
                     THEN [RunCommands(InterpInit, SupportedOnly(pathData'), 1)
                             EXCEPT !.paths = ParsePathData(SupportedOnly(pathData')),
                                    !.currentPath = <<>>]
                     ELSE RunCommands(InterpInit, SupportedOnly(pathData'), 1))]_vars

C21_Witness ==
    /\ pc = "parsed"
    /\ Len(pathData) = 3
    /\ pathData[1] = Command("M", <<10 * Unit, 0, 20 * Unit, 10 * Unit>>)
    /\ pathData[2].letter = "A"
    /\ pathData[3].letter = "l"
    /\ interp.paths = <<<<<<10 * Unit, 0>>, <<20 * Unit, 10 * Unit>>, <<30 * Unit, 20 * Unit>>>>>>

(***************************************************************************)
(* Claims about the editor, checked under SpecEditor.                      *)
(***************************************************************************)
HasPoints(doc) == \A i \in 1..Len(doc) : Len(doc[i].points) >= 1

\* The Document shown after an editor operation produced newShapes.
Reread(newShapes) == Deserialize(ShapesToString(newShapes))

\* C22: every Shape of the Document has at least one point, for the
\* Document the deserializer returns for the current text and after every
\* editor operation (add, move, delete) followed by shapesToString and the
\* deserializer; deleting the only point of a shape removes the shape.
C22_EveryShapeHasAPoint ==
    pc = "editing" =>
        /\ shapes = Deserialize(coordinates)
        /\ HasPoints(shapes)
        /\ \A newPoint \in PointerPositions : HasPoints(Reread(AfterClick(shapes, newPoint)))
        /\ \A c \in Circles :
              IsCircle(c) =>
                /\ HasPoints(Reread(AfterDelete(shapes, c.shapeIndex, c.pointIndex)))
                /\ Len(shapes[c.shapeIndex].points) = 1
                     => Reread(AfterDelete(shapes, c.shapeIndex, c.pointIndex))
                            = Splice(shapes, c.shapeIndex)
                /\ \A newPoint \in PointerPositions :
                      HasPoints(Reread([shapes EXCEPT ![c.shapeIndex].points =
                                            WritePoint(@, c.pointIndex, newPoint)]))

C22_Witness ==
    /\ pc = "editing"
    /\ historyIndex = 3
    /\ history[2] = TypedText
    /\ shapes = <<Shape(<<<<Unit, 2 * Unit>>>>, FALSE)>>
    /\ coordinates = ShapesToString(shapes)

\* C24: while a drag is in progress (draggedPointInfo is not null) its
\* shapeIndex and pointIndex address an existing point of the current
\* Document, under every interleaving of mouse-down, delete, text
\* replacement, undo, redo, mouse-move and mouse-up.
C24_DragAddressesPoint ==
    (pc = "editing" /\ draggedPointInfo # NoDrag) => IsCircle(draggedPointInfo)

(***************************************************************************)
(* Claims about the closure signal and about circles and ellipses, checked *)
(* under SpecStages.                                                       *)
(***************************************************************************)
\* The description of a path element holds a closepath command somewhere.
ClosesSomewhere(el) ==
    el.tag = "path" /\ \E i \in 1..Len(el.d) : el.d[i].letter \in {"Z", "z"}

\* C23: the closure signal is computed once for an element and applied to
\* each of its subpaths: every surviving subpath of a path element whose
\* description holds a closepath command anywhere is serialized with the
\* marker -1 on its last point, a subpath not ended by closepath with far
\* apart ends included.
C23_SignalAppliesToEverySubpath ==
    Processed =>
        /\ Len(allShapesCoords) = Len(Surviving)
        /\ \A k \in 1..Len(Surviving) :
              ClosesSomewhere(Surviving[k].el) =>
                /\ Surviving[k].signalled
                /\ allShapesCoords[k] = PointsToChars(Surviving[k].final, TRUE)
                /\ ClosedInText(k)

C23_Witness ==
    /\ Processed
    /\ ~shouldResize
    /\ svg.elements = <<TwoSubPaths>>
    /\ Len(Surviving) = 2
    /\ Surviving[2].raw = <<<<100 * Unit, 90 * Unit>>, <<120 * Unit, 90 * Unit>>>>
    /\ ~EndsWithinTenth(Surviving[2].simplified)
    /\ ClosedInText(2)

\* The leftmost point of a circle or an ellipse.
LeftmostPoint(el) ==
    IF el.tag = "circle" THEN <<el.cx - el.r, el.cy>> ELSE <<el.cx - el.rx, el.cy>>

\* C25: a circle or ellipse yields exactly one subpath of two identical
\* points, its leftmost point and the same point appended by closepath,
\* whatever its radius; with minDistance above 0 it contributes no shape,
\* with minDistance 0 a closed shape of two coincident points.
C25_RoundShapesCollapse ==
    (Processed /\ svg.elements[1].tag \in {"circle", "ellipse"}) =>
        LET el == svg.elements[1]
            left == LeftmostPoint(el)
        IN  /\ ParsePathData(ShapeToPath(el).d) = <<<<left, left>>>>
            /\ minDistance > 0 =>
                  /\ allShapesCoords = <<>>
                  /\ outcome = Rejected(NoCoordinates)
            /\ minDistance = 0 =>
                  /\ outcome.kind = "resolved"
                  /\ Len(allShapesCoords) = 1
                  /\ Len(ResolvedDocument) = 1
                  /\ ResolvedDocument[1].isClosed
                  /\ Len(ResolvedDocument[1].points) = 2
                  /\ ResolvedDocument[1].points[1] = ResolvedDocument[1].points[2]
                  /\ ~shouldResize => ResolvedDocument[1].points[1] = left

C25_Witness ==
    /\ Processed
    /\ svg.elements[1].tag = "ellipse"
    /\ minDistance = 0
    /\ ~shouldResize
    /\ ResolvedDocument = <<Shape(<<<<20 * Unit, 50 * Unit>>, <<20 * Unit, 50 * Unit>>>>, TRUE)>>

=========================================================================
